---- MODULE Spec2Model ----
(***************************************************************************)
(* Model of the custom-rule engine of node-feature-discovery:              *)
(*   source/custom/custom.go        (src/unnamed/part_000)                 *)
(*   pkg/apis/nfd/v1alpha1/rule.go  (src/unnamed/part_005)                 *)
(*                                                                         *)
(* A Go string is a sequence of tokens: a token is either one of the       *)
(* separator characters the code looks for (".", "=", "\n", " ") or an      *)
(* indivisible run of other characters.  Names that are only ever looked   *)
(* up whole (element names, attribute names, values) are single tokens.    *)
(***************************************************************************)
EXTENDS Integers, Sequences, FiniteSets, TLC

----------------------------------------------------------------------------
(* Bounds of the model *)

\* total number of terms of one rule (MatchFeatures and MatchAny together)
MaxTerms == 2
\* number of MatchAny alternatives of one rule
MaxAny == 2
\* number of Execute calls on one rule object
MaxRuns == 2

----------------------------------------------------------------------------
(* Go values *)

\* the nil error
NoErr == "nil"

\* a Go map: isNil distinguishes the nil map from an empty one
EmptyMap == <<>>
NilMap == [isNil |-> TRUE, kv |-> EmptyMap]
MkMap(f) == [isNil |-> FALSE, kv |-> f]

\* v, ... := <call>; <rest>: the value of the call is bound once and the rest
\* of the function goes on with it
With(v, rest(_)) == rest(v)

\* m[k] = v on a Go map
Put(f, k, v) == [x \in (DOMAIN f) \cup {k} |-> IF x = k THEN v ELSE f[x]]

\* the merge that drops the source
Merge_DropsSource(dst, src) == dst

\* the merge that keeps the value of a key that is already set
Merge_KeepsExisting(dst, src) == [x \in (DOMAIN dst) \cup (DOMAIN src) |->
                                    IF x \in DOMAIN dst THEN dst[x] ELSE src[x]]

\* for k, v := range src { dst[k] = v }
Merge(dst, src) == [x \in (DOMAIN dst) \cup (DOMAIN src) |->
                      IF x \in DOMAIN src THEN src[x] ELSE dst[x]]

\* index of the first occurrence of token c in s, 0 if none
RECURSIVE IndexFrom(_, _, _)
IndexFrom(s, c, i) ==
  IF i > Len(s) THEN 0
  ELSE IF s[i] = c THEN i
  ELSE IndexFrom(s, c, i + 1)

\* strings.SplitN(s, sep, 2)
SplitN2(s, sep) ==
  LET i == IndexFrom(s, sep, 1) IN
  IF i = 0 THEN <<s>>
  ELSE <<SubSeq(s, 1, i - 1), SubSeq(s, i + 1, Len(s))>>

\* the lower-case form of one token
LowerTok(t) ==
  CASE t = "KF" -> "kf"
    [] t = "VF" -> "vf"
    [] t = "IF" -> "if"
    [] t = "D1" -> "d1"
    [] t \in {"matchOn", "MatchOn", "MATCHON"} -> "matchon"
    [] t = "matchFeatures" -> "matchfeatures"
    [] t = "labelsTemplate" -> "labelstemplate"
    [] t = "matchAny" -> "matchany"
    [] OTHER -> t

\* strings.ToLower
ToLower(s) == [i \in DOMAIN s |-> LowerTok(s[i])]

\* strconv.Atoi: ok is FALSE when the text is not a number
Atoi(s) ==
  CASE s = "1" -> [ok |-> TRUE, n |-> 1]
    [] s = "10" -> [ok |-> TRUE, n |-> 10]
    [] s = "100" -> [ok |-> TRUE, n |-> 100]
    [] OTHER -> [ok |-> FALSE, n |-> 0]

\* the order sort.Slice gives to element names
NameOrder == <<"bar", "foo", "k1", "k2", "kx">>

\* the names of set S as a sorted list
Sorted(S) == SelectSeq(NameOrder, LAMBDA n : n \in S)

----------------------------------------------------------------------------
(* Match expressions (package expression, not among the sources) *)

\* MatchExpression.Match(valid, value)
ExprMatch(e, valid, value) ==
  CASE e.Op = "Exists" -> [ok |-> valid, err |-> NoErr]
    [] e.Op = "DoesNotExist" -> [ok |-> ~valid, err |-> NoErr]
    [] e.Op = "In" ->
         [ok |-> valid /\ (\E i \in DOMAIN e.Value : e.Value[i] = value), err |-> NoErr]
    [] e.Op = "Lt" ->
         IF ~valid THEN [ok |-> FALSE, err |-> NoErr]
         ELSE IF ~Atoi(value).ok THEN [ok |-> FALSE, err |-> "ExpressionError"]
         ELSE IF ~Atoi(e.Value[1]).ok THEN [ok |-> FALSE, err |-> "ExpressionError"]
         ELSE [ok |-> Atoi(value).n < Atoi(e.Value[1]).n, err |-> NoErr]
    [] OTHER -> [ok |-> FALSE, err |-> "ExpressionError"]

\* MatchExpression.MatchKeys(name, keys): only the presence operators apply
ExprMatchKeys(e, name, keys) ==
  CASE e.Op = "Exists" -> [ok |-> name \in keys, err |-> NoErr]
    [] e.Op = "DoesNotExist" -> [ok |-> name \notin keys, err |-> NoErr]
    [] OTHER -> [ok |-> FALSE, err |-> "ExpressionError"]

\* MatchExpression.MatchValues(name, values)
ExprMatchValues(e, name, values) ==
  IF name \in DOMAIN values THEN ExprMatch(e, TRUE, values[name])
  ELSE ExprMatch(e, FALSE, "")

\* MatchExpressionSet.MatchValues(values): AND over the named expressions
SetMatchValues(es, values) ==
  IF \E n \in DOMAIN es : ExprMatchValues(es[n], n, values).err # NoErr
    THEN [ok |-> FALSE, err |-> "ExpressionError"]
    ELSE [ok |-> \A n \in DOMAIN es : ExprMatchValues(es[n], n, values).ok, err |-> NoErr]

\* MatchExpressionSet.MatchGetKeys(keys): one MatchedKey per expression name
MatchGetKeys(es, keys) ==
  IF \E n \in DOMAIN es : ExprMatchKeys(es[n], n, keys).err # NoErr
    THEN [v |-> <<>>, err |-> "ExpressionError"]
  ELSE IF \A n \in DOMAIN es : ExprMatchKeys(es[n], n, keys).ok
    THEN [v |-> [i \in DOMAIN Sorted(DOMAIN es) |-> [Name |-> Sorted(DOMAIN es)[i]]],
          err |-> NoErr]
  ELSE [v |-> <<>>, err |-> NoErr]

\* MatchExpressionSet.MatchGetValues(values): one MatchedValue per expression name
MatchGetValues(es, values) ==
  With(SetMatchValues(es, values), LAMBDA r :
  IF r.err # NoErr
    THEN [v |-> <<>>, err |-> "ExpressionError"]
  ELSE IF r.ok
    THEN [v |-> [i \in DOMAIN Sorted(DOMAIN es) |->
                   LET n == Sorted(DOMAIN es)[i] IN
                   [Name |-> n,
                    Value |-> IF n \in DOMAIN values THEN values[n] ELSE ""]],
          err |-> NoErr]
  ELSE [v |-> <<>>, err |-> NoErr])

\* MatchExpressionSet.MatchGetInstances(instances): the matching instances, in order
RECURSIVE MatchInstancesFrom(_, _, _, _)
MatchInstancesFrom(es, instances, i, acc) ==
  IF i > Len(instances) THEN [v |-> acc, err |-> NoErr]
  ELSE With(SetMatchValues(es, instances[i]), LAMBDA r :
       IF r.err # NoErr THEN [v |-> <<>>, err |-> r.err]
       ELSE MatchInstancesFrom(es, instances, i + 1,
                               IF r.ok THEN Append(acc, instances[i]) ELSE acc))

MatchGetInstances(es, instances) == MatchInstancesFrom(es, instances, 1, <<>>)

----------------------------------------------------------------------------
(* FeatureMatcher.match *)

\* the outcomes of match: (ret, nil), (nil, nil) and (nil, err); n is the
\* number of terms the loop has visited when it returns
Matched(ret, n) == [isNil |-> FALSE, m |-> ret, err |-> NoErr, n |-> n]
NoMatch(n) == [isNil |-> TRUE, m |-> EmptyMap, err |-> NoErr, n |-> n]
MatchErr(e, n) == [isNil |-> TRUE, m |-> EmptyMap, err |-> e, n |-> n]

\* the store that keeps what an earlier term has stored under the same name
PutMatched_KeepsFirst(ret, domain, featureName, v) ==
  IF domain \in DOMAIN ret /\ featureName \in DOMAIN ret[domain] THEN ret
  ELSE Put(ret, domain,
           Put(IF domain \in DOMAIN ret THEN ret[domain] ELSE EmptyMap, featureName, v))

\* ret[domain][featureName] = v, creating ret[domain] when it is missing
PutMatched(ret, domain, featureName, v) ==
  Put(ret, domain,
      Put(IF domain \in DOMAIN ret THEN ret[domain] ELSE EmptyMap, featureName, v))

\* TermLookup with a missing feature taken for an empty key set
TermLookup_MissingIsEmpty(term, domainFeatures, featureName) ==
  IF featureName \in DOMAIN domainFeatures.Keys
    THEN With(MatchGetKeys(term.MatchExpressions, domainFeatures.Keys[featureName]), LAMBDA r :
         [found |-> TRUE, kind |-> "keys", v |-> r.v, err |-> r.err])
  ELSE IF featureName \in DOMAIN domainFeatures.Values
    THEN With(MatchGetValues(term.MatchExpressions, domainFeatures.Values[featureName]), LAMBDA r :
         [found |-> TRUE, kind |-> "values", v |-> r.v, err |-> r.err])
  ELSE IF featureName \in DOMAIN domainFeatures.Instances
    THEN With(MatchGetInstances(term.MatchExpressions, domainFeatures.Instances[featureName]), LAMBDA r :
         [found |-> TRUE, kind |-> "instances", v |-> r.v, err |-> r.err])
  ELSE [found |-> TRUE, kind |-> "keys", v |-> <<>>, err |-> NoErr]

\* the lookup of featureName in the Keys, Values and Instances of a domain,
\* in that order, and the evaluation of the term's expressions on what is found
TermLookup(term, domainFeatures, featureName) ==
  IF featureName \in DOMAIN domainFeatures.Keys
    THEN With(MatchGetKeys(term.MatchExpressions, domainFeatures.Keys[featureName]), LAMBDA r :
         [found |-> TRUE, kind |-> "keys", v |-> r.v, err |-> r.err])
  ELSE IF featureName \in DOMAIN domainFeatures.Values
    THEN With(MatchGetValues(term.MatchExpressions, domainFeatures.Values[featureName]), LAMBDA r :
         [found |-> TRUE, kind |-> "values", v |-> r.v, err |-> r.err])
  ELSE IF featureName \in DOMAIN domainFeatures.Instances
    THEN With(MatchGetInstances(term.MatchExpressions, domainFeatures.Instances[featureName]), LAMBDA r :
         [found |-> TRUE, kind |-> "instances", v |-> r.v, err |-> r.err])
  ELSE [found |-> FALSE, kind |-> "none", v |-> <<>>, err |-> NoErr]

\* matchTerm with a missing domain taken for a term that matches nothing
matchTerm_AbsentDomainNoMatch(term, features, ret, i) ==
  LET split == SplitN2(term.Feature, ".") IN
  IF Len(split) # 2 THEN [return |-> TRUE, ret |-> ret, out |-> MatchErr("MalformedReference", i)]
  ELSE
    LET domain == split[1]
        featureName == ToLower(split[2])
    IN
    IF domain \notin DOMAIN features
      THEN [return |-> TRUE, ret |-> ret, out |-> NoMatch(i)]
    ELSE
      With(TermLookup(term, features[domain], featureName), LAMBDA l :
      IF ~l.found THEN [return |-> TRUE, ret |-> ret, out |-> MatchErr("UnknownFeature", i)]
      ELSE IF l.err # NoErr THEN [return |-> TRUE, ret |-> ret, out |-> MatchErr(l.err, i)]
      ELSE IF Len(l.v) = 0 THEN [return |-> TRUE, ret |-> ret, out |-> NoMatch(i)]
      ELSE [return |-> FALSE,
            ret |-> PutMatched(ret, domain, featureName, [kind |-> l.kind, v |-> l.v]),
            out |-> NoMatch(i)])

\* matchTerm that hands back what is stored so far when a term matches nothing
matchTerm_NoMatchReturnsPartial(term, features, ret, i) ==
  LET split == SplitN2(term.Feature, ".") IN
  IF Len(split) # 2 THEN [return |-> TRUE, ret |-> ret, out |-> MatchErr("MalformedReference", i)]
  ELSE
    LET domain == split[1]
        featureName == ToLower(split[2])
    IN
    IF domain \notin DOMAIN features
      THEN [return |-> TRUE, ret |-> ret, out |-> MatchErr("UnknownDomain", i)]
    ELSE
      With(TermLookup(term, features[domain], featureName), LAMBDA l :
      IF ~l.found THEN [return |-> TRUE, ret |-> ret, out |-> MatchErr("UnknownFeature", i)]
      ELSE IF l.err # NoErr THEN [return |-> TRUE, ret |-> ret, out |-> MatchErr(l.err, i)]
      ELSE IF Len(l.v) = 0
        THEN [return |-> TRUE, ret |-> ret,
              out |-> Matched(PutMatched(ret, domain, featureName, [kind |-> l.kind, v |-> l.v]), i)]
      ELSE [return |-> FALSE,
            ret |-> PutMatched(ret, domain, featureName, [kind |-> l.kind, v |-> l.v]),
            out |-> NoMatch(i)])

\* the body of the loop over the terms for term number i, with ret built so
\* far: either the loop goes on with the new ret or match returns out
matchTerm(term, features, ret, i) ==
  LET split == SplitN2(term.Feature, ".") IN
  IF Len(split) # 2 THEN [return |-> TRUE, ret |-> ret, out |-> MatchErr("MalformedReference", i)]
  ELSE
    LET domain == split[1]
        featureName == ToLower(split[2])
    IN
    IF domain \notin DOMAIN features
      THEN [return |-> TRUE, ret |-> ret, out |-> MatchErr("UnknownDomain", i)]
    ELSE
      With(TermLookup(term, features[domain], featureName), LAMBDA l :
      IF ~l.found THEN [return |-> TRUE, ret |-> ret, out |-> MatchErr("UnknownFeature", i)]
      ELSE IF l.err # NoErr THEN [return |-> TRUE, ret |-> ret, out |-> MatchErr(l.err, i)]
      ELSE IF Len(l.v) = 0 THEN [return |-> TRUE, ret |-> ret, out |-> NoMatch(i)]
      ELSE [return |-> FALSE,
            ret |-> PutMatched(ret, domain, featureName, [kind |-> l.kind, v |-> l.v]),
            out |-> NoMatch(i)])

\* the loop over the terms going on after a term that matches nothing
RECURSIVE matchFrom_ContinueOnNoMatch(_, _, _, _)
matchFrom_ContinueOnNoMatch(m, features, i, ret) ==
  IF i > Len(m) THEN Matched(ret, Len(m))
  ELSE With(matchTerm(m[i], features, ret, i), LAMBDA t :
       IF t.return /\ t.out.err # NoErr THEN t.out
       ELSE matchFrom_ContinueOnNoMatch(m, features, i + 1, t.ret))

\* the loop over the terms, from term i on
RECURSIVE matchFrom(_, _, _, _)
matchFrom(m, features, i, ret) ==
  IF i > Len(m) THEN Matched(ret, Len(m))
  ELSE With(matchTerm(m[i], features, ret, i), LAMBDA t :
       IF t.return THEN t.out
       ELSE matchFrom(m, features, i + 1, t.ret))

match(m, features) == matchFrom(m, features, 1, EmptyMap)

----------------------------------------------------------------------------
(* Label templates (text/template with Option("missingkey=error"))

   The text of a template is a sequence of segments:
     text    literal text
     range   {{range .<domain>.<feature>}}<pre><body>=present\n{{end}} where
             <body> is  name       {{.Name}}
                        index      {{index . "<attr>"}}
             and, with body namevalue,
             {{range .<domain>.<feature>}}<pre>{{.Name}}=<pre>{{.Value}}\n{{end}}
             and, with body asvalue,
             {{range .<domain>.<feature>}}<pre>={{.Name}}\n{{end}}
     bad     text that does not parse, such as an unclosed action           *)

\* the tokens of a Go string value substituted in the output
Emit(s) == IF s = "" THEN <<>> ELSE <<s>>

\* the nil *template.Template
NilTemplate == [isNil |-> TRUE, segs |-> <<>>]

\* template.New("").Option("missingkey=error").Parse(text)
TemplateParse(text) ==
  IF \E i \in DOMAIN text : text[i].kind = "bad"
    THEN [tmpl |-> NilTemplate, err |-> "TemplateError"]
    ELSE [tmpl |-> [isNil |-> FALSE, segs |-> text], err |-> NoErr]

\* the output of the body of a range for one element of a matched list
RangeBody(seg, kind, elem) ==
  CASE seg.body = "name" ->
         IF kind \in {"keys", "values"}
           THEN [text |-> <<seg.pre>> \o Emit(elem.Name) \o <<"=", "present", "\n">>, err |-> NoErr]
         ELSE IF "Name" \in DOMAIN elem
           THEN [text |-> <<seg.pre>> \o Emit(elem["Name"]) \o <<"=", "present", "\n">>, err |-> NoErr]
         ELSE [text |-> <<>>, err |-> "TemplateError"]
    [] seg.body = "namevalue" ->
         IF kind = "values"
           THEN [text |-> <<seg.pre>> \o Emit(elem.Name) \o <<"=", seg.pre>> \o Emit(elem.Value) \o <<"\n">>,
                 err |-> NoErr]
         ELSE IF kind = "instances" /\ {"Name", "Value"} \subseteq DOMAIN elem
           THEN [text |-> <<seg.pre>> \o Emit(elem["Name"]) \o <<"=", seg.pre>> \o Emit(elem["Value"]) \o <<"\n">>,
                 err |-> NoErr]
         ELSE [text |-> <<>>, err |-> "TemplateError"]
    [] seg.body = "asvalue" ->
         IF kind \in {"keys", "values"}
           THEN [text |-> <<seg.pre, "=">> \o Emit(elem.Name) \o <<"\n">>, err |-> NoErr]
         ELSE IF "Name" \in DOMAIN elem
           THEN [text |-> <<seg.pre, "=">> \o Emit(elem["Name"]) \o <<"\n">>, err |-> NoErr]
         ELSE [text |-> <<>>, err |-> "TemplateError"]
    [] seg.body = "index" ->
         IF kind = "instances"
           THEN [text |-> <<seg.pre>>
                          \o Emit(IF seg.attr \in DOMAIN elem THEN elem[seg.attr] ELSE "")
                          \o <<"=", "present", "\n">>,
                 err |-> NoErr]
         ELSE [text |-> <<>>, err |-> "TemplateError"]
    [] OTHER -> [text |-> <<>>, err |-> "TemplateError"]

\* the iterations of a range over the matched list, from element i on
RECURSIVE RangeFrom(_, _, _, _)
RangeFrom(seg, matched, i, acc) ==
  IF i > Len(matched.v) THEN [text |-> acc, err |-> NoErr]
  ELSE With(RangeBody(seg, matched.kind, matched.v[i]), LAMBDA b :
       IF b.err # NoErr THEN [text |-> <<>>, err |-> b.err]
       ELSE RangeFrom(seg, matched, i + 1, acc \o b.text))

\* one segment executed against the matched features: a field that the data
\* does not have is an error (missingkey=error)
SegmentExecute(seg, data) ==
  IF seg.kind = "text" THEN [text |-> seg.text, err |-> NoErr]
  ELSE IF <<seg.domain>> \notin DOMAIN data THEN [text |-> <<>>, err |-> "TemplateError"]
  ELSE IF <<seg.feature>> \notin DOMAIN data[<<seg.domain>>] THEN [text |-> <<>>, err |-> "TemplateError"]
  ELSE RangeFrom(seg, data[<<seg.domain>>][<<seg.feature>>], 1, <<>>)

\* Template.Execute(&tmp, data), from segment i on
RECURSIVE TemplateExecuteFrom(_, _, _, _)
TemplateExecuteFrom(segs, data, i, acc) ==
  IF i > Len(segs) THEN [text |-> acc, err |-> NoErr]
  ELSE With(SegmentExecute(segs[i], data), LAMBDA r :
       IF r.err # NoErr THEN [text |-> <<>>, err |-> r.err]
       ELSE TemplateExecuteFrom(segs, data, i + 1, acc \o r.text))

TemplateExecute(tmpl, data) == TemplateExecuteFrom(tmpl.segs, data, 1, <<>>)

\* strings.Split(s, "\n")
RECURSIVE SplitLines(_)
SplitLines(s) ==
  LET i == IndexFrom(s, "\n", 1) IN
  IF i = 0 THEN <<s>>
  ELSE <<SubSeq(s, 1, i - 1)>> \o SplitLines(SubSeq(s, i + 1, Len(s)))

IsSpace(c) == c \in {" ", "\t"}

\* strings.TrimSpace
RECURSIVE TrimSpace(_)
TrimSpace(s) ==
  IF Len(s) = 0 THEN s
  ELSE IF IsSpace(s[1]) THEN TrimSpace(Tail(s))
  ELSE IF IsSpace(s[Len(s)]) THEN TrimSpace(SubSeq(s, 1, Len(s) - 1))
  ELSE s

\* the loop of Rule.executeLabelsTemplate over the lines of the expanded text
RECURSIVE SplitLabels(_, _, _)
SplitLabels(lines, i, out) ==
  IF i > Len(lines) THEN out
  ELSE LET trimmed == TrimSpace(lines[i])
           split == SplitN2(trimmed, "=")
       IN
       IF trimmed = <<>> THEN SplitLabels(lines, i + 1, out)
       ELSE IF Len(split) = 1 THEN SplitLabels(lines, i + 1, Put(out, split[1], <<"true">>))
       ELSE SplitLabels(lines, i + 1, Put(out, split[1], split[2]))

\* Rule.executeLabelsTemplate(in, out) of package custom: out is the label map
\* so far, the result is the label map after and the error
executeLabelsTemplate(r, in, out) ==
  IF r.labelsTemplate.isNil THEN [out |-> out, err |-> NoErr]
  ELSE With(TemplateExecute(r.labelsTemplate, in), LAMBDA t :
       IF t.err # NoErr THEN [out |-> out, err |-> t.err]
       ELSE [out |-> SplitLabels(SplitLines(t.text), 1, out), err |-> NoErr])

----------------------------------------------------------------------------
(* Rule.execute of package custom *)

\* the results of execute: (ret, nil), (nil, nil) and (nil, err); trace lists
\* the terms the matchers have visited, in order
Labels(ret, trace) == [labels |-> MkMap(ret), err |-> NoErr, trace |-> trace]
\* a non-match returned as an empty map instead of nil
NoLabels_EmptyMap(trace) == [labels |-> MkMap(EmptyMap), err |-> NoErr, trace |-> trace]
NoLabels(trace) == [labels |-> NilMap, err |-> NoErr, trace |-> trace]
ExecErr(e, trace) == [labels |-> NilMap, err |-> e, trace |-> trace]

\* MatchAnyElem.match
matchAnyElem(e, features) == match(e.MatchFeatures, features)

\* the terms a call of match has visited
Visited(m, o) == SubSeq(m, 1, o.n)

\* the loop over r.MatchAny ending at the first alternative that does not match
RECURSIVE matchAnyFrom_StopAtNoMatch(_, _, _, _, _, _)
matchAnyFrom_StopAtNoMatch(r, features, i, matched, ret, trace) ==
  IF i > Len(r.MatchAny)
    THEN [exit |-> "end", matched |-> matched, ret |-> ret, err |-> NoErr, trace |-> trace]
  ELSE
    With(matchAnyElem(r.MatchAny[i], features), LAMBDA o :
    With(trace \o Visited(r.MatchAny[i].MatchFeatures, o), LAMBDA tr :
    IF o.err # NoErr
      THEN [exit |-> "return", matched |-> matched, ret |-> ret, err |-> o.err, trace |-> tr]
    ELSE IF ~o.isNil
      THEN IF r.labelsTemplate.isNil
             THEN [exit |-> "end", matched |-> TRUE, ret |-> ret, err |-> NoErr, trace |-> tr]
           ELSE With(executeLabelsTemplate(r, o.m, ret), LAMBDA t :
                IF t.err # NoErr
                  THEN [exit |-> "return", matched |-> TRUE, ret |-> ret, err |-> t.err, trace |-> tr]
                ELSE matchAnyFrom_StopAtNoMatch(r, features, i + 1, TRUE, t.out, tr))
    ELSE [exit |-> "end", matched |-> matched, ret |-> ret, err |-> NoErr, trace |-> tr]))

\* the loop over r.MatchAny that goes on with the labels so far when the
\* template fails on an alternative
RECURSIVE matchAnyFrom_SkipsTemplateError(_, _, _, _, _, _)
matchAnyFrom_SkipsTemplateError(r, features, i, matched, ret, trace) ==
  IF i > Len(r.MatchAny)
    THEN [exit |-> "end", matched |-> matched, ret |-> ret, err |-> NoErr, trace |-> trace]
  ELSE
    With(matchAnyElem(r.MatchAny[i], features), LAMBDA o :
    With(trace \o Visited(r.MatchAny[i].MatchFeatures, o), LAMBDA tr :
    IF o.err # NoErr
      THEN [exit |-> "return", matched |-> matched, ret |-> ret, err |-> o.err, trace |-> tr]
    ELSE IF ~o.isNil
      THEN IF r.labelsTemplate.isNil
             THEN [exit |-> "end", matched |-> TRUE, ret |-> ret, err |-> NoErr, trace |-> tr]
           ELSE With(executeLabelsTemplate(r, o.m, ret), LAMBDA t :
                matchAnyFrom_SkipsTemplateError(r, features, i + 1, TRUE, t.out, tr))
    ELSE matchAnyFrom_SkipsTemplateError(r, features, i + 1, matched, ret, tr)))

\* the loop over r.MatchAny from alternative i on; exit is "return" when the
\* loop returns from execute with an error and "end" when it ends or breaks
RECURSIVE matchAnyFrom(_, _, _, _, _, _)
matchAnyFrom(r, features, i, matched, ret, trace) ==
  IF i > Len(r.MatchAny)
    THEN [exit |-> "end", matched |-> matched, ret |-> ret, err |-> NoErr, trace |-> trace]
  ELSE
    With(matchAnyElem(r.MatchAny[i], features), LAMBDA o :
    With(trace \o Visited(r.MatchAny[i].MatchFeatures, o), LAMBDA tr :
    IF o.err # NoErr
      THEN [exit |-> "return", matched |-> matched, ret |-> ret, err |-> o.err, trace |-> tr]
    ELSE IF ~o.isNil
      THEN IF r.labelsTemplate.isNil
             THEN [exit |-> "end", matched |-> TRUE, ret |-> ret, err |-> NoErr, trace |-> tr]
           ELSE With(executeLabelsTemplate(r, o.m, ret), LAMBDA t :
                IF t.err # NoErr
                  THEN [exit |-> "return", matched |-> TRUE, ret |-> ret, err |-> t.err, trace |-> tr]
                ELSE matchAnyFrom(r, features, i + 1, TRUE, t.out, tr))
    ELSE matchAnyFrom(r, features, i + 1, matched, ret, tr)))

\* execute from the MatchFeatures step on, with the labels collected so far
executeMatchFeatures(r, features, ret, trace) ==
  IF Len(r.MatchFeatures) > 0
    THEN With(match(r.MatchFeatures, features), LAMBDA o :
         With(trace \o Visited(r.MatchFeatures, o), LAMBDA tr :
         IF o.err # NoErr THEN ExecErr(o.err, tr)
         ELSE IF o.isNil THEN NoLabels(tr)
         ELSE With(executeLabelsTemplate(r, o.m, ret), LAMBDA t :
              IF t.err # NoErr THEN ExecErr(t.err, tr)
              ELSE Labels(Merge(t.out, r.Labels), tr))))
  ELSE Labels(Merge(ret, r.Labels), trace)

\* execute going on to MatchFeatures when no alternative has matched
execute_IgnoresMatchAny(r, features) ==
  IF Len(r.MatchAny) > 0
    THEN With(matchAnyFrom(r, features, 1, FALSE, EmptyMap, <<>>), LAMBDA a :
         IF a.exit = "return" THEN ExecErr(a.err, a.trace)
         ELSE executeMatchFeatures(r, features, a.ret, a.trace))
  ELSE executeMatchFeatures(r, features, EmptyMap, <<>>)

\* execute with a rule that has no matcher taken for a rule that does not match
execute_NoMatcherNoMatch(r, features) ==
  IF Len(r.MatchAny) > 0
    THEN With(matchAnyFrom(r, features, 1, FALSE, EmptyMap, <<>>), LAMBDA a :
         IF a.exit = "return" THEN ExecErr(a.err, a.trace)
         ELSE IF ~a.matched THEN NoLabels(a.trace)
         ELSE executeMatchFeatures(r, features, a.ret, a.trace))
  ELSE IF Len(r.MatchFeatures) = 0 THEN NoLabels(<<>>)
  ELSE executeMatchFeatures(r, features, EmptyMap, <<>>)

\* Rule.execute(features)
execute(r, features) ==
  IF Len(r.MatchAny) > 0
    THEN With(matchAnyFrom(r, features, 1, FALSE, EmptyMap, <<>>), LAMBDA a :
         IF a.exit = "return" THEN ExecErr(a.err, a.trace)
         ELSE IF ~a.matched THEN NoLabels(a.trace)
         ELSE executeMatchFeatures(r, features, a.ret, a.trace))
  ELSE executeMatchFeatures(r, features, EmptyMap, <<>>)

----------------------------------------------------------------------------
(* Rule.Execute of package v1alpha1: the template is compiled on first use
   and cached in r.labelsTemplate *)

\* newTemplateHelper(name)
newTemplateHelper(name) == TemplateParse(name)

\* templateHelper.execute(data)
helperExecute(h, data) == TemplateExecute(h, data)

\* the loop of templateHelper.expandMap over the lines of the expanded text
RECURSIVE expandMapLines(_, _, _)
expandMapLines(lines, i, out) ==
  IF i > Len(lines) THEN out
  ELSE LET trimmed == TrimSpace(lines[i])
           split == SplitN2(trimmed, "=")
       IN
       IF trimmed = <<>> THEN expandMapLines(lines, i + 1, out)
       ELSE IF Len(split) = 1 THEN expandMapLines(lines, i + 1, Put(out, split[1], <<>>))
       ELSE expandMapLines(lines, i + 1, Put(out, split[1], split[2]))

\* templateHelper.expandMap(data)
expandMap(h, data) ==
  With(helperExecute(h, data), LAMBDA t :
  IF t.err # NoErr THEN [out |-> EmptyMap, err |-> t.err]
  ELSE [out |-> expandMapLines(SplitLines(t.text), 1, EmptyMap), err |-> NoErr])

\* Rule.executeLabelsTemplate(in, out) of package v1alpha1; rule is r after
\* the call, with the compiled template cached
executeLabelsTemplateV1(r, in, out) ==
  IF r.LabelsTemplate = <<>> THEN [out |-> out, err |-> NoErr, rule |-> r]
  ELSE
    With(IF r.labelsTemplate.isNil THEN newTemplateHelper(r.LabelsTemplate)
         ELSE [tmpl |-> r.labelsTemplate, err |-> NoErr], LAMBDA c :
    IF c.err # NoErr THEN [out |-> out, err |-> c.err, rule |-> r]
    ELSE
      With([r EXCEPT !.labelsTemplate = c.tmpl], LAMBDA r2 :
      With(expandMap(r2.labelsTemplate, in), LAMBDA l :
      IF l.err # NoErr THEN [out |-> out, err |-> l.err, rule |-> r2]
      ELSE [out |-> Merge(out, l.out), err |-> NoErr, rule |-> r2])))

\* the loop of Execute over r.MatchAny from alternative i on
RECURSIVE ExecuteMatchAnyFrom(_, _, _, _, _, _)
ExecuteMatchAnyFrom(r, features, i, matched, ret, trace) ==
  IF i > Len(r.MatchAny)
    THEN [exit |-> "end", matched |-> matched, ret |-> ret, err |-> NoErr,
          trace |-> trace, rule |-> r]
  ELSE
    With(matchAnyElem(r.MatchAny[i], features), LAMBDA o :
    With(trace \o Visited(r.MatchAny[i].MatchFeatures, o), LAMBDA tr :
    IF o.err # NoErr
      THEN [exit |-> "return", matched |-> matched, ret |-> ret, err |-> o.err,
            trace |-> tr, rule |-> r]
    ELSE IF ~o.isNil
      THEN IF r.labelsTemplate.isNil
             THEN [exit |-> "end", matched |-> TRUE, ret |-> ret, err |-> NoErr,
                   trace |-> tr, rule |-> r]
           ELSE With(executeLabelsTemplateV1(r, o.m, ret), LAMBDA t :
                IF t.err # NoErr
                  THEN [exit |-> "return", matched |-> TRUE, ret |-> ret, err |-> t.err,
                        trace |-> tr, rule |-> t.rule]
                ELSE ExecuteMatchAnyFrom(t.rule, features, i + 1, TRUE, t.out, tr))
    ELSE ExecuteMatchAnyFrom(r, features, i + 1, matched, ret, tr)))

\* Execute from the MatchFeatures step on
ExecuteMatchFeatures(r, features, ret, trace) ==
  IF Len(r.MatchFeatures) > 0
    THEN With(match(r.MatchFeatures, features), LAMBDA o :
         With(trace \o Visited(r.MatchFeatures, o), LAMBDA tr :
         IF o.err # NoErr THEN [res |-> ExecErr(o.err, tr), rule |-> r]
         ELSE IF o.isNil THEN [res |-> NoLabels(tr), rule |-> r]
         ELSE With(executeLabelsTemplateV1(r, o.m, ret), LAMBDA t :
              IF t.err # NoErr THEN [res |-> ExecErr(t.err, tr), rule |-> t.rule]
              ELSE [res |-> Labels(Merge(t.out, r.Labels), tr), rule |-> t.rule])))
  ELSE [res |-> Labels(Merge(ret, r.Labels), trace), rule |-> r]

\* Rule.Execute(features): res is what it returns, rule is r after the call
Execute(r, features) ==
  IF Len(r.MatchAny) > 0
    THEN With(ExecuteMatchAnyFrom(r, features, 1, FALSE, EmptyMap, <<>>), LAMBDA a :
         IF a.exit = "return" THEN [res |-> ExecErr(a.err, a.trace), rule |-> a.rule]
         ELSE IF ~a.matched THEN [res |-> NoLabels(a.trace), rule |-> a.rule]
         ELSE ExecuteMatchFeatures(a.rule, features, a.ret, a.trace))
  ELSE ExecuteMatchFeatures(r, features, EmptyMap, <<>>)

----------------------------------------------------------------------------
(* The inputs: rules and feature snapshots *)

Str(t) == <<t>>

Expr(op, value) == [Op |-> op, Value |-> value]

Term(feature, es) == [Feature |-> feature, MatchExpressions |-> es]

\* the terms rules are built from
TermPool ==
  { Term(<<"d1", ".", "kf">>, "k1" :> Expr("Exists", <<>>)),
    Term(<<"d1", ".", "KF">>, ("k2" :> Expr("Exists", <<>>)) @@ ("foo" :> Expr("DoesNotExist", <<>>))),
    Term(<<"d1", ".", "vf">>, ("k1" :> Expr("In", <<"v1">>)) @@ ("bar" :> Expr("DoesNotExist", <<>>))),
    Term(<<"d1", ".", "if">>, "a1" :> Expr("Lt", <<"100">>)),
    Term(<<"d2", ".", "kf">>, "k1" :> Expr("Exists", <<>>)) }

\* the FeatureMatchers of at most n terms
Matchers(n) == UNION { [1..k -> TermPool] : k \in 0..n }

\* the terms of flat that slot assigns to j, in order
RECURSIVE TermsOfSlot(_, _, _, _)
TermsOfSlot(flat, slot, j, i) ==
  IF i > Len(flat) THEN <<>>
  ELSE (IF slot[i] = j THEN <<flat[i]>> ELSE <<>>) \o TermsOfSlot(flat, slot, j, i + 1)

\* the static labels of a rule
LabelChoices ==
  { EmptyMap,
    (<<"l1">> :> <<"s1">>) @@ (<<"kf-", "k1">> :> <<"s1">>) }

TextSeg(text) ==
  [kind |-> "text", text |-> text, domain |-> "", feature |-> "", body |-> "", pre |-> "", attr |-> ""]
RangeSeg(domain, feature, body, pre, attr) ==
  [kind |-> "range", text |-> <<>>, domain |-> domain, feature |-> feature, body |-> body,
   pre |-> pre, attr |-> attr]
BadSeg ==
  [kind |-> "bad", text |-> <<>>, domain |-> "", feature |-> "", body |-> "", pre |-> "", attr |-> ""]

\* the label templates of a rule; the empty text is "no template"
TemplateChoices ==
  { <<>>,
    <<TextSeg(<<"a", "=", "1", "\n", " ", "b", " ", "\n", " ", "\n">>),
      RangeSeg("d1", "kf", "name", "kf-", ""),
      RangeSeg("d1", "kf", "asvalue", "n", "")>>,
    <<BadSeg>> }

\* a Rule as it is after decoding: the compiled template is not set
MkRule(labels, template, matchFeatures, matchAny) ==
  [Labels |-> labels, LabelsTemplate |-> template, MatchFeatures |-> matchFeatures,
   MatchAny |-> matchAny, labelsTemplate |-> NilTemplate]

\* the slots of the terms of a rule with nAny alternatives: slot 0 is
\* MatchFeatures, slot j the j-th alternative; the terms are listed slot by slot
Slots(flat, nAny) ==
  { slot \in [1..MaxTerms -> 0..MaxAny] :
      /\ \A i \in 1..MaxTerms : slot[i] <= nAny
      /\ \A i \in 1..MaxTerms : i > Len(flat) => slot[i] = 0
      /\ \A i \in 1..(Len(flat) - 1) : slot[i] <= slot[i + 1] }

NoFeatures == [Keys |-> EmptyMap, Values |-> EmptyMap, Instances |-> EmptyMap]

\* the feature snapshots
Snapshots ==
  { EmptyMap,
    Str("d1") :> NoFeatures,
    Str("d1") :> [Keys |-> Str("kf") :> {},
                  Values |-> Str("vf") :> EmptyMap,
                  Instances |-> Str("if") :> <<>>],
    Str("d1") :> [Keys |-> Str("kf") :> {"k1"},
                  Values |-> Str("vf") :> ("k1" :> "v1"),
                  Instances |-> Str("if") :> <<"a1" :> "1">>],
    Str("d1") :> [Keys |-> Str("kf") :> {"k1", "k2"},
                  Values |-> Str("vf") :> ("k1" :> "vx"),
                  Instances |-> Str("if") :> <<"a1" :> "1", "a1" :> "100">>],
    Str("d1") :> [Keys |-> Str("kf") :> {"k2"},
                  Values |-> EmptyMap,
                  Instances |-> Str("if") :> <<"a1" :> "vx">>],
    Str("d1") :> [Keys |-> Str("KF") :> {"k1", "k2"},
                  Values |-> EmptyMap,
                  Instances |-> EmptyMap] }

----------------------------------------------------------------------------
(* The state machine *)

VARIABLES
  pkg,       \* the package of the rule object: "custom" or "v1alpha1"
  rule,      \* the rule object
  features,  \* the feature snapshot of the discovery pass
  runs,      \* what the executions of the rule have returned so far
  mres,      \* what a call of rule.MatchFeatures.match has returned
  crashed,   \* the process has panicked
  ruleLists, \* the static, configured and directory rules of the custom source
  calls,     \* the concurrent calls of Execute on the rule object, per goroutine
  overlapped \* two calls of Execute have been in flight at the same time

vars == <<pkg, rule, features, runs, mres, crashed, ruleLists, calls, overlapped>>

\* a rule on its own, not in the lists of a source
NoLists == [static |-> <<>>, config |-> <<>>, directory |-> <<>>]

\* the goroutines that call Execute on one rule object
Goroutines == {1, 2}

\* a call that has not started
Idle ==
  [pc |-> "idle", i |-> 0, matched |-> FALSE, in |-> EmptyMap, ret |-> EmptyMap,
   back |-> "labels", t |-> NilTemplate, seen |-> FALSE, reads |-> 0, writes |-> 0,
   res |-> NoLabels(<<>>)]

\* no call of Execute has started
NoCalls == [g \in Goroutines |-> Idle]

\* no call of match yet
NotCalled == [called |-> FALSE, out |-> NoMatch(0)]

Init ==
  /\ pkg \in {"custom", "v1alpha1"}
  /\ \E labels \in LabelChoices, template \in TemplateChoices,
        flat \in Matchers(MaxTerms), nAny \in 0..MaxAny :
       \E slot \in Slots(flat, nAny) :
         rule = MkRule(labels, template,
                       TermsOfSlot(flat, slot, 0, 1),
                       [j \in 1..nAny |-> [MatchFeatures |-> TermsOfSlot(flat, slot, j, 1)]])
  /\ features \in Snapshots
  /\ runs = <<>>
  /\ mres = NotCalled
  /\ crashed = FALSE
  /\ ruleLists = NoLists
  /\ calls = NoCalls
  /\ overlapped = FALSE

\* customSource.SetConfig for the rule: template.Must panics on a parse error
SetConfig ==
  /\ pkg = "custom"
  /\ ~crashed
  /\ runs = <<>>
  /\ rule.LabelsTemplate # <<>>
  /\ LET p == TemplateParse(rule.LabelsTemplate) IN
     IF p.err # NoErr
       THEN crashed' = TRUE /\ UNCHANGED rule
       ELSE rule' = [rule EXCEPT !.labelsTemplate = p.tmpl] /\ UNCHANGED crashed
  /\ UNCHANGED <<calls, overlapped, ruleLists, pkg, features, runs, mres>>

\* a call of Rule.execute of package custom
RuleExecute ==
  /\ pkg = "custom"
  /\ ~crashed
  /\ Len(runs) < MaxRuns
  /\ runs' = Append(runs, execute(rule, features))
  /\ UNCHANGED <<calls, overlapped, ruleLists, pkg, rule, features, mres, crashed>>

\* a call of Rule.Execute of package v1alpha1
RuleExecuteV1 ==
  /\ pkg = "v1alpha1"
  /\ ~crashed
  /\ Len(runs) < MaxRuns
  /\ \E e \in {Execute(rule, features)} :
       /\ runs' = Append(runs, e.res)
       /\ rule' = e.rule
  /\ UNCHANGED <<calls, overlapped, ruleLists, pkg, features, mres, crashed>>

\* a call of FeatureMatcher.match on the MatchFeatures of the rule
Match ==
  /\ pkg = "custom"
  /\ ~crashed
  /\ runs = <<>>
  /\ rule.labelsTemplate.isNil
  /\ mres' = [called |-> TRUE, out |-> match(rule.MatchFeatures, features)]
  /\ UNCHANGED <<calls, overlapped, ruleLists, pkg, rule, features, runs, crashed>>

Next == SetConfig \/ RuleExecute \/ RuleExecuteV1 \/ Match

Spec == Init /\ [][Next]_vars

----------------------------------------------------------------------------
(* The claims *)

Custom == pkg = "custom"
Ran == Len(runs) > 0
Last == runs[Len(runs)]

\* the terms of the rule: those of MatchFeatures and of every alternative
AllTerms(r) ==
  { r.MatchFeatures[i] : i \in DOMAIN r.MatchFeatures }
    \cup UNION { { r.MatchAny[j].MatchFeatures[i] : i \in DOMAIN r.MatchAny[j].MatchFeatures } :
                 j \in DOMAIN r.MatchAny }

\* the term refers to a domain that the snapshot does not have
RefDomainAbsent(term) ==
  LET split == SplitN2(term.Feature, ".") IN
  Len(split) = 2 /\ split[1] \notin DOMAIN features

\* the term refers to a domain of the snapshot and to a feature that is in
\* none of the three sets of the domain
RefFeatureAbsent(term) ==
  LET split == SplitN2(term.Feature, ".") IN
  /\ Len(split) = 2
  /\ split[1] \in DOMAIN features
  /\ ToLower(split[2]) \notin
       (DOMAIN features[split[1]].Keys) \cup (DOMAIN features[split[1]].Values)
         \cup (DOMAIN features[split[1]].Instances)

\* the term evaluated alone against the snapshot: it matches at least one
\* element, it resolves and matches nothing, or it fails with an error
TermMatches(term) == ~matchTerm(term, features, EmptyMap, 1).return
TermErr(term) ==
  LET t == matchTerm(term, features, EmptyMap, 1) IN
  IF t.return THEN t.out.err ELSE NoErr
TermNoMatch(term) == ~TermMatches(term) /\ TermErr(term) = NoErr

\* a matcher evaluated alone against the snapshot
Outcome(m) == match(m, features)
Matches(m) == ~Outcome(m).isNil
NoMatchOf(m) == Outcome(m).isNil /\ Outcome(m).err = NoErr

\* (nil, nil)
NilNil(run) == run.labels = NilMap /\ run.err = NoErr

\* C1: a rule with empty MatchFeatures and empty MatchAny returns, against
\* every snapshot, a nil error and exactly its static Labels
C1_NoMatcherStaticLabels ==
  (Custom /\ rule.MatchFeatures = <<>> /\ rule.MatchAny = <<>>) =>
    \A i \in DOMAIN runs : runs[i].err = NoErr /\ runs[i].labels = MkMap(rule.Labels)

C1_Witness ==
  /\ Custom /\ Ran
  /\ rule.MatchFeatures = <<>> /\ rule.MatchAny = <<>>
  /\ rule.Labels # EmptyMap
  /\ ~rule.labelsTemplate.isNil
  /\ features = EmptyMap
  /\ Last.labels = MkMap(rule.Labels)

\* C2 as stated: a rule with a term that refers to an absent domain, whatever
\* the other terms and the position of the term, returns a non-nil error
C2_AbsentDomainAlwaysError ==
  (Custom /\ \E t \in AllTerms(rule) : RefDomainAbsent(t)) =>
    \A i \in DOMAIN runs : runs[i].err # NoErr

\* C2 as amended: execute returns a non-nil error and nil labels whenever its
\* evaluation visits a term that refers to an absent domain; when the term
\* before it in MatchFeatures resolves and matches nothing, the term is not
\* visited and execute returns (nil, nil)
C2_AbsentDomainVisitedIsError ==
  Custom =>
    \A i \in DOMAIN runs :
      /\ (\E k \in DOMAIN runs[i].trace : RefDomainAbsent(runs[i].trace[k]))
           => (runs[i].err # NoErr /\ runs[i].labels = NilMap)
      /\ ( /\ rule.MatchAny = <<>>
           /\ Len(rule.MatchFeatures) = 2
           /\ TermNoMatch(rule.MatchFeatures[1])
           /\ RefDomainAbsent(rule.MatchFeatures[2]) )
           => NilNil(runs[i])

C2_Witness ==
  /\ Custom /\ Ran
  /\ rule.MatchAny = <<>>
  /\ Len(rule.MatchFeatures) = 2
  /\ TermMatches(rule.MatchFeatures[1])
  /\ RefDomainAbsent(rule.MatchFeatures[2])
  /\ Len(Last.trace) = 2
  /\ Last.err = "UnknownDomain"

\* C3 as stated: a rule with a term that refers to a present domain and to a
\* feature that is in none of its three sets returns a non-nil error, for
\* every such matcher and snapshot
C3_AbsentFeatureAlwaysError ==
  (Custom /\ \E t \in AllTerms(rule) : RefFeatureAbsent(t)) =>
    \A i \in DOMAIN runs : runs[i].err # NoErr

\* C3 as amended: execute returns a non-nil error and nil labels whenever its
\* evaluation visits a term that refers to a present domain and an absent
\* feature; when the term before it in MatchFeatures resolves and matches
\* nothing, the term is not visited and execute returns (nil, nil)
C3_AbsentFeatureVisitedIsError ==
  Custom =>
    \A i \in DOMAIN runs :
      /\ (\E k \in DOMAIN runs[i].trace : RefFeatureAbsent(runs[i].trace[k]))
           => (runs[i].err # NoErr /\ runs[i].labels = NilMap)
      /\ ( /\ rule.MatchAny = <<>>
           /\ Len(rule.MatchFeatures) = 2
           /\ TermNoMatch(rule.MatchFeatures[1])
           /\ RefFeatureAbsent(rule.MatchFeatures[2]) )
           => NilNil(runs[i])

C3_Witness ==
  /\ Custom /\ Ran
  /\ rule.MatchAny = <<>>
  /\ Len(rule.MatchFeatures) = 2
  /\ TermMatches(rule.MatchFeatures[1])
  /\ RefFeatureAbsent(rule.MatchFeatures[2])
  /\ Len(Last.trace) = 2
  /\ Last.err = "UnknownFeature"

AltMatches(j) == Matches(rule.MatchAny[j].MatchFeatures)
AltNoMatch(j) == NoMatchOf(rule.MatchAny[j].MatchFeatures)
AltErr(j) == Outcome(rule.MatchAny[j].MatchFeatures).err

\* C5 as stated: a rule with two MatchAny alternatives yields its labels if
\* either alternative alone matches, whatever the position of that alternative
\* and the outcome of the other one; if neither matches it returns (nil, nil)
C5_EitherAlternativeWhateverTheOther ==
  (Custom /\ Len(rule.MatchAny) = 2 /\ rule.MatchFeatures = <<>> /\ rule.labelsTemplate.isNil) =>
    \A i \in DOMAIN runs :
      /\ (AltMatches(1) \/ AltMatches(2)) => (runs[i].err = NoErr /\ ~runs[i].labels.isNil)
      /\ (~AltMatches(1) /\ ~AltMatches(2)) => NilNil(runs[i])

\* C5 as amended: alternatives are evaluated in list order and an error of an
\* evaluated alternative, or of the template expansion, is returned by execute
\* even when the other alternative matches.  Without error, execute yields the
\* labels iff either alternative matches; without a compiled template it stops
\* at the first matching alternative and does not see an error of a later one
C5_EitherAlternativeUnlessError ==
  (Custom /\ Len(rule.MatchAny) = 2 /\ rule.MatchFeatures = <<>>) =>
    \A i \in DOMAIN runs :
      /\ runs[i].err = NoErr => (~runs[i].labels.isNil <=> (AltMatches(1) \/ AltMatches(2)))
      /\ AltErr(1) # NoErr => runs[i].err = AltErr(1)
      /\ (AltNoMatch(1) /\ AltErr(2) # NoErr) => runs[i].err = AltErr(2)
      /\ (AltNoMatch(1) /\ AltNoMatch(2)) => NilNil(runs[i])
      /\ rule.labelsTemplate.isNil =>
           /\ AltMatches(1) => (runs[i].err = NoErr /\ runs[i].labels = MkMap(rule.Labels))
           /\ (AltNoMatch(1) /\ AltMatches(2)) =>
                (runs[i].err = NoErr /\ runs[i].labels = MkMap(rule.Labels))
      /\ ~rule.labelsTemplate.isNil =>
           /\ (AltMatches(1) /\ AltErr(2) # NoErr) => runs[i].err # NoErr
           /\ (AltErr(1) = NoErr /\ AltErr(2) = NoErr /\ runs[i].err # NoErr)
                => runs[i].err = "TemplateError"

C5_Witness ==
  /\ Custom /\ Ran
  /\ Len(rule.MatchAny) = 2 /\ rule.MatchFeatures = <<>>
  /\ rule.MatchAny[1].MatchFeatures # <<>>
  /\ AltNoMatch(1) /\ AltMatches(2)
  /\ rule.Labels # EmptyMap
  /\ Last.err = NoErr /\ Last.labels = MkMap(rule.Labels)

\* the template of the rule expands without error on what matcher m matches
ExpandsOn(m) ==
  rule.labelsTemplate.isNil \/ ~Matches(m)
    \/ TemplateExecute(rule.labelsTemplate, Outcome(m).m).err = NoErr

\* no matcher of the rule and no template expansion fails with an error
NoErrorInRule ==
  /\ Outcome(rule.MatchFeatures).err = NoErr
  /\ ExpandsOn(rule.MatchFeatures)
  /\ \A j \in DOMAIN rule.MatchAny : AltErr(j) = NoErr /\ ExpandsOn(rule.MatchAny[j].MatchFeatures)

VisitedResolve(run) == \A k \in DOMAIN run.trace : TermErr(run.trace[k]) = NoErr

\* the rule as a whole does not match: it has alternatives and none matches,
\* or its MatchFeatures has a term that matches nothing
RuleNoMatch ==
  \/ rule.MatchAny # <<>> /\ \A j \in DOMAIN rule.MatchAny : ~AltMatches(j)
  \/ rule.MatchFeatures # <<>> /\ ~Matches(rule.MatchFeatures)

\* C7 as stated: whenever every term the rule evaluates resolves without error
\* and some term matches no element, execute returns (nil, nil)
C7_SomeTermNoMatchIsNilNil ==
  Custom =>
    \A i \in DOMAIN runs :
      (VisitedResolve(runs[i]) /\ \E k \in DOMAIN runs[i].trace : TermNoMatch(runs[i].trace[k]))
        => NilNil(runs[i])

\* C7 as amended: whenever every term the rule evaluates resolves without
\* error and no template expansion fails, execute returns a nil error, and if
\* the rule as a whole does not match it returns the nil map, not an empty one
C7_NoMatchIsNilNil ==
  Custom =>
    \A i \in DOMAIN runs :
      (VisitedResolve(runs[i]) /\ runs[i].err # "TemplateError") =>
        /\ runs[i].err = NoErr
        /\ RuleNoMatch => runs[i].labels = NilMap

C7_Witness ==
  /\ Custom /\ Ran
  /\ rule.MatchAny = <<>>
  /\ Len(rule.MatchFeatures) = 1
  /\ TermNoMatch(rule.MatchFeatures[1])
  /\ rule.Labels # EmptyMap
  /\ NilNil(Last)

\* the label map has every static label of the rule
HasStatic(kv) ==
  \A k \in DOMAIN rule.Labels : k \in DOMAIN kv /\ kv[k] = rule.Labels[k]

\* C8 as stated: the map execute returns has every static label of the rule,
\* also when MatchAny or MatchFeatures does not match
C8_StaticLabelsAlways ==
  Custom =>
    \A i \in DOMAIN runs : runs[i].err = NoErr => HasStatic(runs[i].labels.kv)

\* C8 as amended: the map execute returns when the rule matches has every
\* static label of the rule; when MatchAny or MatchFeatures does not match,
\* execute returns the nil map, without the static labels
C8_StaticLabelsOnMatch ==
  Custom =>
    \A i \in DOMAIN runs :
      /\ ~runs[i].labels.isNil => HasStatic(runs[i].labels.kv)
      /\ (runs[i].err = NoErr /\ ~RuleNoMatch) => ~runs[i].labels.isNil
      /\ (runs[i].err = NoErr /\ RuleNoMatch) => runs[i].labels = NilMap

C8_Witness ==
  /\ Custom /\ Ran
  /\ rule.MatchFeatures # <<>>
  /\ Matches(rule.MatchFeatures)
  /\ ~rule.labelsTemplate.isNil
  /\ rule.Labels # EmptyMap
  /\ ~Last.labels.isNil
  /\ HasStatic(Last.labels.kv)
  /\ DOMAIN Last.labels.kv # DOMAIN rule.Labels

\* the labels the template of the rule gives for what matcher m matches, as
\* the package of the rule parses them
TemplateLabels(m) ==
  LET c == TemplateParse(rule.LabelsTemplate) IN
  IF c.err # NoErr \/ ~Matches(m) THEN EmptyMap
  ELSE IF Custom THEN executeLabelsTemplate([rule EXCEPT !.labelsTemplate = c.tmpl], Outcome(m).m, EmptyMap).out
  ELSE expandMap(c.tmpl, Outcome(m).m).out

\* the rule executes its template
UsesTemplate == IF Custom THEN ~rule.labelsTemplate.isNil ELSE rule.LabelsTemplate # <<>>

MatchFeaturesLabels ==
  IF UsesTemplate /\ rule.MatchFeatures # <<>> THEN TemplateLabels(rule.MatchFeatures) ELSE EmptyMap
MatchAnyLabels(j) ==
  IF UsesTemplate THEN TemplateLabels(rule.MatchAny[j].MatchFeatures) ELSE EmptyMap

\* C9: in the map a matching rule returns, a key of the static Labels has the
\* static value; any other key that the template gives for MatchFeatures has
\* that value; any other key has the value of the last MatchAny alternative,
\* in list order, whose template output has it
C9_LabelPrecedence ==
  \A i \in DOMAIN runs :
    ~runs[i].labels.isNil =>
      LET res == runs[i].labels.kv IN
      /\ HasStatic(res)
      /\ \A k \in DOMAIN res :
           IF k \in DOMAIN rule.Labels THEN res[k] = rule.Labels[k]
           ELSE IF k \in DOMAIN MatchFeaturesLabels THEN res[k] = MatchFeaturesLabels[k]
           ELSE \E j \in DOMAIN rule.MatchAny :
                  /\ k \in DOMAIN MatchAnyLabels(j)
                  /\ res[k] = MatchAnyLabels(j)[k]
                  /\ \A j2 \in DOMAIN rule.MatchAny : j2 > j => k \notin DOMAIN MatchAnyLabels(j2)
      /\ Custom =>
           DOMAIN res = (DOMAIN rule.Labels) \cup (DOMAIN MatchFeaturesLabels)
                          \cup UNION { DOMAIN MatchAnyLabels(j) : j \in DOMAIN rule.MatchAny }

C9_Witness ==
  /\ Custom /\ Ran
  /\ ~rule.labelsTemplate.isNil
  /\ Len(rule.MatchAny) = 1
  /\ ~Last.labels.isNil
  /\ \E k \in DOMAIN MatchAnyLabels(1) :
       /\ k \in DOMAIN MatchFeaturesLabels
       /\ MatchAnyLabels(1)[k] # MatchFeaturesLabels[k]
       /\ Last.labels.kv[k] = MatchFeaturesLabels[k]
  /\ \E k \in DOMAIN MatchAnyLabels(1) :
       /\ k \in DOMAIN rule.Labels
       /\ MatchAnyLabels(1)[k] # rule.Labels[k]
       /\ Last.labels.kv[k] = rule.Labels[k]

\* C10: the first, second and every later Execute of the same rule object of
\* package v1alpha1 against the same snapshot return the same label map and
\* the same error
C10_Idempotent ==
  ~Custom =>
    \A i, j \in DOMAIN runs :
      runs[i].labels = runs[j].labels /\ runs[i].err = runs[j].err

\* the key of one trimmed line of expanded text: the part before the first "="
LineKey(t) ==
  IF IndexFrom(t, "=", 1) = 0 THEN t ELSE SubSeq(t, 1, IndexFrom(t, "=", 1) - 1)

\* the value of one trimmed line: "true" when it has no "=", else all that
\* follows the first "="
LineValue(t) ==
  IF IndexFrom(t, "=", 1) = 0 THEN <<"true">>
  ELSE SubSeq(t, IndexFrom(t, "=", 1) + 1, Len(t))

\* the labels the expanded text stands for: one per key of a non-blank line,
\* with the value of the last line that has the key
ParsedLabels(text) ==
  LET lines == SplitLines(text)
      kept == { i \in DOMAIN lines : TrimSpace(lines[i]) # <<>> }
  IN
  [k \in { LineKey(TrimSpace(lines[i])) : i \in kept } |->
     LineValue(TrimSpace(lines[
       CHOOSE i \in kept :
         /\ LineKey(TrimSpace(lines[i])) = k
         /\ \A j \in kept : LineKey(TrimSpace(lines[j])) = k => j <= i]))]

\* the text the template of the rule expands to for what MatchFeatures matches
ExpandedText ==
  TemplateExecute(TemplateParse(rule.LabelsTemplate).tmpl, Outcome(rule.MatchFeatures).m).text

\* C11: in both packages the labels of a rule that has only a template and
\* MatchFeatures are the expanded text split on newlines, each line trimmed,
\* blank lines dropped, each line split at its first "=", a line with no "="
\* giving the value "true"
C11_TemplateOutputParsing ==
  \A i \in DOMAIN runs :
    (/\ rule.MatchAny = <<>> /\ rule.MatchFeatures # <<>> /\ rule.Labels = EmptyMap
     /\ UsesTemplate /\ ~runs[i].labels.isNil)
      => runs[i].labels.kv = ParsedLabels(ExpandedText)

\* C11 holds of Rule.executeLabelsTemplate of package custom
C11_CustomParsing == Custom => C11_TemplateOutputParsing

\* the terms that the evaluation of alternatives j.. of the rule visits when
\* every alternative is evaluated
RECURSIVE AllAlternativesTrace(_)
AllAlternativesTrace(j) ==
  IF j > Len(rule.MatchAny) THEN <<>>
  ELSE Visited(rule.MatchAny[j].MatchFeatures, Outcome(rule.MatchAny[j].MatchFeatures))
         \o AllAlternativesTrace(j + 1)

\* the terms that the evaluation of alternatives j.. visits when it stops at
\* the first matching one
RECURSIVE FirstMatchTrace(_)
FirstMatchTrace(j) ==
  IF j > Len(rule.MatchAny) THEN <<>>
  ELSE Visited(rule.MatchAny[j].MatchFeatures, Outcome(rule.MatchAny[j].MatchFeatures))
         \o (IF AltMatches(j) THEN <<>> ELSE FirstMatchTrace(j + 1))

\* the run has visited the terms of tr first
StartsWith(run, tr) ==
  Len(run.trace) >= Len(tr) /\ SubSeq(run.trace, 1, Len(tr)) = tr

\* C12: every execution of a rule with a label template and MatchAny
\* alternatives that returns labels has evaluated every alternative, and the
\* labels have every key of the template output of each matching alternative;
\* an execution of a rule with no label template stops at the first matching
\* alternative
C12_AccumulateOverAlternatives ==
  \A i \in DOMAIN runs :
    (rule.MatchAny # <<>> /\ ~runs[i].labels.isNil) =>
      IF UsesTemplate
        THEN /\ StartsWith(runs[i], AllAlternativesTrace(1))
             /\ \A j \in DOMAIN rule.MatchAny :
                  DOMAIN MatchAnyLabels(j) \subseteq DOMAIN runs[i].labels.kv
        ELSE StartsWith(runs[i], FirstMatchTrace(1))

\* C12 holds of Rule.execute of package custom
C12_CustomAccumulates == Custom => C12_AccumulateOverAlternatives

\* the domain and the lower-cased feature name a term refers to
TermDomain(term) == SplitN2(term.Feature, ".")[1]
TermFeature(term) == ToLower(SplitN2(term.Feature, ".")[2])

\* the matched subset of a term on the snapshot: for a key feature one element
\* per expression name, for a value feature one element per expression name
\* with the value of the name (empty when the name is absent), for an
\* instance feature the instances that satisfy all expressions, in order
MatchedSubset(term) ==
  LET d == features[TermDomain(term)]
      f == TermFeature(term)
      es == term.MatchExpressions
      names == Sorted(DOMAIN es)
  IN
  IF f \in DOMAIN d.Keys
    THEN [kind |-> "keys", v |-> [i \in DOMAIN names |-> [Name |-> names[i]]]]
  ELSE IF f \in DOMAIN d.Values
    THEN [kind |-> "values",
          v |-> [i \in DOMAIN names |->
                   [Name |-> names[i],
                    Value |-> IF names[i] \in DOMAIN d.Values[f] THEN d.Values[f][names[i]] ELSE ""]]]
  ELSE [kind |-> "instances",
        v |-> SelectSeq(d.Instances[f], LAMBDA inst : SetMatchValues(es, inst).ok)]

\* term number i is the last term of matcher m that refers to its feature
LastOnFeature(m, i) ==
  \A j \in DOMAIN m :
    (TermDomain(m[j]) = TermDomain(m[i]) /\ TermFeature(m[j]) = TermFeature(m[i])) => j <= i

\* the label keys that begin with the prefix of the range over d1.kf
PrefixedKeys(kv) == { k \in DOMAIN kv : k[1] = "kf-" }

\* C13 as stated: the data handed to the template holds, under the domain and
\* the lower-cased feature name of each term, exactly the matched subset of
\* that term
C13_MatchedSubsetOfEachTerm ==
  (mres.called /\ ~mres.out.isNil) =>
    \A i \in DOMAIN rule.MatchFeatures :
      mres.out.m[TermDomain(rule.MatchFeatures[i])][TermFeature(rule.MatchFeatures[i])]
        = MatchedSubset(rule.MatchFeatures[i])

\* C13 as amended: the data holds, under the domain and the lower-cased
\* feature name, exactly the matched subset of the last term that refers to
\* the feature, and nothing else; a template that ranges over a matched
\* feature gives one label per matched element and none for other elements
C13_MatchedSubsetOfLastTerm ==
  /\ (mres.called /\ ~mres.out.isNil) =>
       LET m == rule.MatchFeatures IN
       /\ DOMAIN mres.out.m = { TermDomain(m[i]) : i \in DOMAIN m }
       /\ \A d \in DOMAIN mres.out.m :
            DOMAIN mres.out.m[d] = { TermFeature(m[i]) : i \in { j \in DOMAIN m : TermDomain(m[j]) = d } }
       /\ \A i \in DOMAIN m :
            LastOnFeature(m, i) =>
              mres.out.m[TermDomain(m[i])][TermFeature(m[i])] = MatchedSubset(m[i])
  /\ \A i \in DOMAIN runs :
       (/\ Custom /\ ~rule.labelsTemplate.isNil /\ rule.MatchAny = <<>>
        /\ rule.MatchFeatures # <<>> /\ rule.Labels = EmptyMap /\ ~runs[i].labels.isNil)
         => LET data == Outcome(rule.MatchFeatures).m[<<"d1">>][<<"kf">>].v IN
            PrefixedKeys(runs[i].labels.kv) = { <<"kf-", data[n].Name>> : n \in DOMAIN data }

C13_Witness ==
  /\ mres.called /\ ~mres.out.isNil
  /\ Len(rule.MatchFeatures) = 2
  /\ rule.MatchFeatures[1].Feature = <<"d1", ".", "KF">>
  /\ rule.MatchFeatures[2].Feature = <<"d1", ".", "if">>
  /\ mres.out.m[<<"d1">>][<<"kf">>].v = <<[Name |-> "foo"], [Name |-> "k2"]>>
  /\ Len(features[<<"d1">>].Instances[<<"if">>]) = 2
  /\ mres.out.m[<<"d1">>][<<"if">>].v = <<"a1" :> "1">>
  /\ Custom /\ Ran /\ ~rule.labelsTemplate.isNil
  /\ rule.MatchAny = <<>> /\ rule.Labels = EmptyMap
  /\ PrefixedKeys(Last.labels.kv) = { <<"kf-", "foo">>, <<"kf-", "k2">> }

----------------------------------------------------------------------------
(* The legacy dialect: LegacyMatcher and LegacyRule of package custom *)

\* the most sub-rule slots set in one LegacyMatcher
MaxSlots == 2
\* the most alternatives in the MatchOn of a LegacyRule
MaxMatchOn == 2

\* allRules of LegacyMatcher.match: the six slots in the order they are tried
allRules == <<"pciId", "usbId", "loadedKMod", "cpuId", "kConfig", "nodename">>

\* a nil slot
NilRule == "nil"

\* a sub-rule of a slot, named by what its Match returns on this host
SubRules == {"match", "nomatch", "error"}

\* legacyRule.Match of the sub-rule r
SubRuleMatch(r) ==
  [m |-> r = "match", err |-> IF r = "error" THEN "sub-rule failed" ELSE NoErr]

\* what LegacyMatcher.match returns; visited are the slots whose Match was called
MatcherOut(m, err, visited) == [m |-> m, err |-> err, visited |-> visited]

\* matchRules that goes on to the next slot after a slot that does not match
RECURSIVE matchRules_ContinueOnNoMatch(_, _, _)
matchRules_ContinueOnNoMatch(m, k, visited) ==
  IF k > Len(allRules) THEN MatcherOut(TRUE, NoErr, visited)
  ELSE IF m[allRules[k]] = NilRule THEN matchRules_ContinueOnNoMatch(m, k + 1, visited)
  ELSE With(SubRuleMatch(m[allRules[k]]), LAMBDA r :
       IF r.err # NoErr THEN MatcherOut(FALSE, r.err, Append(visited, allRules[k]))
       ELSE matchRules_ContinueOnNoMatch(m, k + 1, Append(visited, allRules[k])))

\* matchRules of LegacyMatcher.match, from slot k on
RECURSIVE matchRules(_, _, _)
matchRules(m, k, visited) ==
  IF k > Len(allRules) THEN MatcherOut(TRUE, NoErr, visited)
  ELSE IF m[allRules[k]] = NilRule THEN matchRules(m, k + 1, visited)
  ELSE With(SubRuleMatch(m[allRules[k]]), LAMBDA r :
       IF r.err # NoErr THEN MatcherOut(FALSE, r.err, Append(visited, allRules[k]))
       ELSE IF ~r.m THEN MatcherOut(FALSE, NoErr, Append(visited, allRules[k]))
       ELSE matchRules(m, k + 1, Append(visited, allRules[k])))

\* LegacyMatcher.match
LegacyMatcher_match(m) == matchRules(m, 1, <<>>)

\* the label of a legacy rule under a fixed value
LegacyLabel_AlwaysTrue(r) == (r.Name :> <<"true">>)

\* value := "true"; if r.Value != nil { value = *r.Value };
\* map[string]string{r.Name: value}
LegacyLabel(r) == (r.Name :> (IF r.Value.isNil THEN <<"true">> ELSE r.Value.s))

\* the loop over MatchOn that goes on after an alternative that has matched
RECURSIVE matchOnFrom_NoBreak(_, _, _, _)
matchOnFrom_NoBreak(MatchOn, j, matched, evaluated) ==
  IF j > Len(MatchOn) THEN [matched |-> matched, err |-> NoErr, evaluated |-> evaluated]
  ELSE With(LegacyMatcher_match(MatchOn[j]), LAMBDA o :
       IF o.err # NoErr THEN [matched |-> FALSE, err |-> o.err, evaluated |-> Append(evaluated, j)]
       ELSE matchOnFrom_NoBreak(MatchOn, j + 1, matched \/ o.m, Append(evaluated, j)))

\* the loop of LegacyRule.execute over MatchOn, from alternative j on;
\* evaluated are the alternatives whose match was called
RECURSIVE matchOnFrom(_, _, _, _)
matchOnFrom(MatchOn, j, matched, evaluated) ==
  IF j > Len(MatchOn) THEN [matched |-> matched, err |-> NoErr, evaluated |-> evaluated]
  ELSE With(LegacyMatcher_match(MatchOn[j]), LAMBDA o :
       IF o.err # NoErr THEN [matched |-> FALSE, err |-> o.err, evaluated |-> Append(evaluated, j)]
       ELSE IF o.m THEN [matched |-> TRUE, err |-> NoErr, evaluated |-> Append(evaluated, j)]
       ELSE matchOnFrom(MatchOn, j + 1, matched, Append(evaluated, j)))

\* LegacyRule.execute; the trace of the result holds the alternatives evaluated
LegacyRule_execute(r) ==
  IF Len(r.MatchOn) > 0
    THEN With(matchOnFrom(r.MatchOn, 1, FALSE, <<>>), LAMBDA o :
         IF o.err # NoErr THEN ExecErr(o.err, o.evaluated)
         ELSE IF ~o.matched THEN NoLabels(o.evaluated)
         ELSE Labels(LegacyLabel(r), o.evaluated))
    ELSE Labels(LegacyLabel(r), <<>>)

\* a *string
NilString == [isNil |-> TRUE, s |-> <<>>]
StringPtr(s) == [isNil |-> FALSE, s |-> s]

\* the legacy matchers: every filling of the six slots with at most MaxSlots set
LegacyMatchers ==
  { m \in [{allRules[k] : k \in DOMAIN allRules} -> SubRules \cup {NilRule}] :
      Cardinality({k \in DOMAIN allRules : m[allRules[k]] # NilRule}) <= MaxSlots }

\* the lists of at most n legacy matchers
MatchOnLists(n) == UNION { [1..k -> LegacyMatchers] : k \in 0..n }

\* the values of a legacy rule: unset, a text, the empty text
LegacyValues == { NilString, StringPtr(Str("s1")), StringPtr(<<>>) }

MkLegacyRule(name, value, matchOn) == [Name |-> name, Value |-> value, MatchOn |-> matchOn]

\* no call of LegacyMatcher.match yet
LegacyNotCalled == [called |-> FALSE, arg |-> 0, out |-> MatcherOut(FALSE, NoErr, <<>>)]

\* a legacy rule on a host; the sub-rules consult their own sources, not the
\* snapshot of the pass
InitLegacy ==
  /\ pkg = "legacy"
  /\ \E value \in LegacyValues, matchOn \in MatchOnLists(MaxMatchOn) :
       rule = MkLegacyRule(Str("l1"), value, matchOn)
  /\ features = EmptyMap
  /\ runs = <<>>
  /\ mres = LegacyNotCalled
  /\ crashed = FALSE
  /\ ruleLists = NoLists
  /\ calls = NoCalls
  /\ overlapped = FALSE

\* a call of LegacyRule.execute
LegacyExecute ==
  /\ pkg = "legacy"
  /\ Len(runs) < MaxRuns
  /\ runs' = Append(runs, LegacyRule_execute(rule))
  /\ UNCHANGED <<calls, overlapped, ruleLists, pkg, rule, features, mres, crashed>>

\* a call of LegacyMatcher.match on an alternative of the rule
LegacyMatch ==
  /\ pkg = "legacy"
  /\ runs = <<>>
  /\ \E j \in DOMAIN rule.MatchOn :
       mres' = [called |-> TRUE, arg |-> j, out |-> LegacyMatcher_match(rule.MatchOn[j])]
  /\ UNCHANGED <<calls, overlapped, ruleLists, pkg, rule, features, runs, crashed>>

NextLegacy == LegacyExecute \/ LegacyMatch

SpecLegacy == InitLegacy /\ [][NextLegacy]_vars

----------------------------------------------------------------------------
(* Claims on the legacy dialect *)

Legacy == pkg = "legacy"

\* the set slots of a legacy matcher, as positions of allRules
SetSlots(m) == { k \in DOMAIN allRules : m[allRules[k]] # NilRule }

\* the first set slot whose sub-rule does not match, 0 if every set slot matches
FirstBad(m) ==
  IF \A k \in SetSlots(m) : m[allRules[k]] = "match" THEN 0
  ELSE CHOOSE k \in SetSlots(m) :
         /\ m[allRules[k]] # "match"
         /\ \A i \in SetSlots(m) : i < k => m[allRules[i]] = "match"

AltOutcome(m) == IF FirstBad(m) = 0 THEN "match" ELSE m[allRules[FirstBad(m)]]

\* the rule matches overall: an alternative matches and those before it have
\* answered with a non-match, or there is no alternative at all
OverallMatch(r) ==
  \/ Len(r.MatchOn) = 0
  \/ \E j \in DOMAIN r.MatchOn :
       /\ AltOutcome(r.MatchOn[j]) = "match"
       /\ \A i \in 1..(j - 1) : AltOutcome(r.MatchOn[i]) = "nomatch"

\* every alternative answers with a non-match
OverallNoMatch(r) ==
  /\ Len(r.MatchOn) > 0
  /\ \A j \in DOMAIN r.MatchOn : AltOutcome(r.MatchOn[j]) = "nomatch"

\* C14: LegacyRule.execute, on an overall match, returns a map with exactly one
\* entry, the Name of the rule mapped to *Value when Value is set and to "true"
\* otherwise; a legacy rule with no MatchOn alternative always matches; on no
\* match it returns (nil, nil).
C14_LegacyOneLabel ==
  Legacy =>
    \A i \in DOMAIN runs :
      /\ OverallMatch(rule) =>
           /\ runs[i].err = NoErr
           /\ ~runs[i].labels.isNil
           /\ DOMAIN runs[i].labels.kv = {rule.Name}
           /\ runs[i].labels.kv[rule.Name] =
                (IF rule.Value.isNil THEN <<"true">> ELSE rule.Value.s)
      /\ OverallNoMatch(rule) => NilNil(runs[i])

\* a rule with a value set, a first alternative that does not match and a
\* second that does, has returned its one label
C14_Witness ==
  /\ Legacy /\ Ran
  /\ rule.Value = StringPtr(Str("s1"))
  /\ Len(rule.MatchOn) = 2
  /\ AltOutcome(rule.MatchOn[1]) = "nomatch"
  /\ AltOutcome(rule.MatchOn[2]) = "match"
  /\ SetSlots(rule.MatchOn[2]) # {}
  /\ Last.labels = MkMap(Str("l1") :> Str("s1"))

\* some alternative of the rule matches
SomeAltMatches(r) == \E j \in DOMAIN r.MatchOn : AltOutcome(r.MatchOn[j]) = "match"

\* the first alternative that matches
FirstMatching(r) ==
  CHOOSE j \in DOMAIN r.MatchOn :
    /\ AltOutcome(r.MatchOn[j]) = "match"
    /\ \A i \in 1..(j - 1) : AltOutcome(r.MatchOn[i]) # "match"

\* the rule has returned its label after evaluating the alternatives 1..j
LabelAfter(run, j) ==
  /\ run.err = NoErr
  /\ ~run.labels.isNil
  /\ DOMAIN run.labels.kv = {rule.Name}
  /\ run.trace = [i \in 1..j |-> i]

\* C15 as stated: LegacyRule.execute yields its label whenever at least one
\* MatchOn alternative matches, whatever the outcome (non-match or error) of
\* the other alternatives; the alternatives are evaluated in list order and
\* none after the first matching one is evaluated.
C15_OrWhateverTheOthers ==
  Legacy =>
    \A i \in DOMAIN runs :
      SomeAltMatches(rule) => LabelAfter(runs[i], FirstMatching(rule))

\* C15, amended: LegacyRule.execute yields its label whenever at least one
\* MatchOn alternative matches and no alternative before the first matching
\* one fails, whatever the outcome (non-match or error) of the alternatives
\* after it; the alternatives are evaluated in list order and none after the
\* first matching one is evaluated; an error of an alternative before the
\* first matching one is returned as the error of the rule, without a label.
C15_OrUnlessEarlierError ==
  Legacy =>
    \A i \in DOMAIN runs :
      SomeAltMatches(rule) =>
        IF \A j \in 1..(FirstMatching(rule) - 1) : AltOutcome(rule.MatchOn[j]) = "nomatch"
          THEN LabelAfter(runs[i], FirstMatching(rule))
          ELSE /\ runs[i].err # NoErr
               /\ runs[i].labels = NilMap
               /\ Len(runs[i].trace) < FirstMatching(rule)
               /\ AltOutcome(rule.MatchOn[Len(runs[i].trace)]) = "error"

\* a first alternative that matches and a second that would fail: the label
\* is returned and the second alternative is not evaluated
C15_Witness ==
  /\ Legacy /\ Ran
  /\ Len(rule.MatchOn) = 2
  /\ AltOutcome(rule.MatchOn[1]) = "match"
  /\ AltOutcome(rule.MatchOn[2]) = "error"
  /\ Last.err = NoErr
  /\ Last.labels = MkMap(LegacyLabel(rule))
  /\ Last.trace = <<1>>

\* the set slots among the first k of allRules, in the order of allRules
SetSlotsUpTo(m, k) == SelectSeq(SubSeq(allRules, 1, k), LAMBDA s : m[s] # NilRule)

\* C16: LegacyMatcher.match is the AND over its set sub-rule slots (pciId,
\* usbId, loadedKMod, cpuId, kConfig, nodename, evaluated in that order): unset
\* slots are skipped, a matcher with all slots unset matches, the first
\* non-matching slot yields (false, nil) without evaluating later slots, and
\* the first slot error reached is returned as an error.
C16_LegacyMatcherAnd ==
  (Legacy /\ mres.called) =>
    LET m == rule.MatchOn[mres.arg]
        out == mres.out
    IN  /\ (\A k \in SetSlots(m) : m[allRules[k]] = "match") =>
             /\ out.m /\ out.err = NoErr
             /\ out.visited = SetSlotsUpTo(m, Len(allRules))
        /\ (FirstBad(m) # 0 /\ AltOutcome(m) = "nomatch") =>
             /\ ~out.m /\ out.err = NoErr
             /\ out.visited = SetSlotsUpTo(m, FirstBad(m))
        /\ (FirstBad(m) # 0 /\ AltOutcome(m) = "error") =>
             /\ ~out.m /\ out.err # NoErr
             /\ out.visited = SetSlotsUpTo(m, FirstBad(m))

\* a matcher with pciId unset, a usbId that does not match and a nodename
\* that would fail: (false, nil) after usbId only
C16_Witness ==
  /\ Legacy /\ mres.called
  /\ rule.MatchOn[mres.arg]["pciId"] = NilRule
  /\ rule.MatchOn[mres.arg]["usbId"] = "nomatch"
  /\ rule.MatchOn[mres.arg]["nodename"] = "error"
  /\ mres.out = MatcherOut(FALSE, NoErr, <<"usbId">>)

----------------------------------------------------------------------------
(* Decoding and encoding of CustomRule *)

\* the most keys of a serialized rule
MaxKeys == 2

\* the json names of the fields of LegacyRule and of Rule
LegacyRuleFields == {"name", "value", "matchOn"}
RuleFields == {"name", "labels", "labelsTemplate", "matchFeatures", "matchAny"}

\* the keys a serialized rule is written with
KeyPool == {"name", "value", "matchOn", "MatchOn", "MATCHON", "matchFeatures", "labels"}

\* a raw value: one that fits the field it is decoded into, one that does not
RawValues == {"ok", "bad"}

\* a serialized rule: a mapping of keys to raw values; the other documents
\* are null, a scalar and a text that does not parse
Mapping(kv) == [kind |-> "mapping", kv |-> kv]
NullDoc == [kind |-> "null", kv |-> EmptyMap]
ScalarDoc == [kind |-> "scalar", kv |-> EmptyMap]
MalformedDoc == [kind |-> "malformed", kv |-> EmptyMap]

Documents ==
  { Mapping(kv) : kv \in UNION { [ks -> RawValues] :
                                   ks \in { x \in SUBSET KeyPool : Cardinality(x) <= MaxKeys } } }
    \cup {NullDoc, ScalarDoc, MalformedDoc}

\* a *LegacyRule or a *Rule: nil, or an object with the fields set by decoding
NilVariant == [isNil |-> TRUE, set |-> {}]
Variant(set) == [isNil |-> FALSE, set |-> set]

MkCustomRule(legacy, modern) == [LegacyRule |-> legacy, Rule |-> modern]
EmptyCustomRule == MkCustomRule(NilVariant, NilVariant)

\* the field of a struct a key is decoded into: names are compared without
\* regard to letter case
FieldsOf(fields, k) == { f \in fields : ToLower(<<f>>) = ToLower(<<k>>) }

\* yaml.Unmarshal(data, &ptr) for a pointer to a struct with the given fields,
\* on a document that has decoded into raw: null or a mapping
UnmarshalInto(ptr, doc, fields) ==
  IF doc.kind = "null" THEN [ptr |-> NilVariant, err |-> NoErr]
  ELSE [ptr |-> Variant(ptr.set \cup UNION { FieldsOf(fields, k) : k \in DOMAIN doc.kv }),
        err |-> IF \E k \in DOMAIN doc.kv : FieldsOf(fields, k) # {} /\ doc.kv[k] = "bad"
                  THEN "json: cannot unmarshal" ELSE NoErr]

\* yaml.Unmarshal(data, &raw) for raw of type map[string]json.RawMessage
UnmarshalRaw(doc) ==
  CASE doc.kind = "malformed" -> [keys |-> {}, err |-> "yaml: syntax error"]
    [] doc.kind = "scalar" -> [keys |-> {}, err |-> "json: cannot unmarshal"]
    [] OTHER -> [keys |-> DOMAIN doc.kv, err |-> NoErr]

\* the test of the discriminator that regards letter case
IsMatchOn_CaseSensitive(k) == k = "matchOn"

\* strings.ToLower(k) == "matchon"
IsMatchOn(k) == ToLower(<<k>>) = <<"matchon">>

\* CustomRule.UnmarshalJSON
UnmarshalJSON(c, doc) ==
  With(UnmarshalRaw(doc), LAMBDA raw :
    IF raw.err # NoErr THEN [c |-> c, err |-> raw.err]
    ELSE IF \E k \in raw.keys : IsMatchOn(k)
      THEN With(UnmarshalInto(c.LegacyRule, doc, LegacyRuleFields), LAMBDA u :
             [c |-> [c EXCEPT !.LegacyRule = u.ptr], err |-> u.err])
      ELSE With(UnmarshalInto(c.Rule, doc, RuleFields), LAMBDA u :
             [c |-> [c EXCEPT !.Rule = u.ptr], err |-> u.err]))

\* json.Marshal of a *LegacyRule or a *Rule: null for a nil pointer; Value of
\* LegacyRule is omitted when empty, every other field is written
Marshal(ptr, fields) ==
  IF ptr.isNil THEN NullDoc
  ELSE Mapping([k \in (fields \ {"value"}) \cup (ptr.set \cap {"value"}) |-> "ok"])

\* CustomRule.MarshalJSON
MarshalJSON(c) ==
  IF ~c.LegacyRule.isNil THEN [data |-> Marshal(c.LegacyRule, LegacyRuleFields), err |-> NoErr]
  ELSE [data |-> Marshal(c.Rule, RuleFields), err |-> NoErr]

\* the rule objects before a call: empty, or with variants set by the program
CustomRules ==
  { MkCustomRule(l, m) : l \in {NilVariant, Variant({"name", "matchOn"}),
                                Variant({"name", "value", "matchOn"})},
                         m \in {NilVariant, Variant({"name", "labels"})} }

InitCodec ==
  /\ pkg = "custom"
  /\ rule \in CustomRules
  /\ features = EmptyMap
  /\ runs = <<>>
  /\ mres = NotCalled
  /\ crashed = FALSE
  /\ ruleLists = NoLists
  /\ calls = NoCalls
  /\ overlapped = FALSE

\* a call of CustomRule.UnmarshalJSON on the rule object
Decode ==
  /\ Len(runs) < MaxRuns
  /\ \E doc \in Documents :
       \E u \in {UnmarshalJSON(rule, doc)} :
         /\ rule' = u.c
         /\ runs' = Append(runs, [op |-> "UnmarshalJSON", c |-> rule, doc |-> doc,
                                  out |-> u.c, err |-> u.err])
  /\ UNCHANGED <<calls, overlapped, ruleLists, pkg, features, mres, crashed>>

\* a call of CustomRule.MarshalJSON on the rule object
Encode ==
  /\ Len(runs) < MaxRuns
  /\ \E e \in {MarshalJSON(rule)} :
       runs' = Append(runs, [op |-> "MarshalJSON", c |-> rule, doc |-> e.data,
                             out |-> rule, err |-> e.err])
  /\ UNCHANGED <<calls, overlapped, ruleLists, pkg, rule, features, mres, crashed>>

NextCodec == Decode \/ Encode

SpecCodec == InitCodec /\ [][NextCodec]_vars

----------------------------------------------------------------------------
(* Claims on decoding and encoding *)

Decoded(i) == runs[i].op = "UnmarshalJSON"
Encoded(i) == runs[i].op = "MarshalJSON"

\* the spellings of the discriminator in the key pool
MatchOnSpellings == {"matchOn", "MatchOn", "MATCHON"}

\* C17: decoding a serialized rule (a mapping of keys) into an empty
\* CustomRule populates exactly one variant, LegacyRule if and only if some
\* top-level key equals "matchOn" without regard to letter case and Rule
\* otherwise, and leaves the other variant nil.
C17_DialectDetection ==
  \A i \in DOMAIN runs :
    (Decoded(i) /\ runs[i].c = EmptyCustomRule /\ runs[i].doc.kind = "mapping") =>
      /\ ~runs[i].out.LegacyRule.isNil <=> (DOMAIN runs[i].doc.kv \cap MatchOnSpellings # {})
      /\ runs[i].out.Rule.isNil <=> (DOMAIN runs[i].doc.kv \cap MatchOnSpellings # {})

\* a rule written with MATCHON and matchFeatures has been decoded into an
\* empty CustomRule: LegacyRule is set, Rule is nil
C17_Witness ==
  /\ Len(runs) = 1 /\ Decoded(1)
  /\ runs[1].c = EmptyCustomRule
  /\ runs[1].doc = Mapping("MATCHON" :> "ok" @@ "matchFeatures" :> "ok")
  /\ runs[1].err = NoErr
  /\ rule = MkCustomRule(Variant({"matchOn"}), NilVariant)

\* C18: encoding a CustomRule serializes whichever variant is populated, and
\* encoding a CustomRule with both LegacyRule and Rule nil fails with a
\* configuration error instead of producing output.
C18_EncodePopulatedOrFail ==
  \A i \in DOMAIN runs :
    Encoded(i) =>
      /\ (~runs[i].c.LegacyRule.isNil /\ runs[i].c.Rule.isNil) =>
           /\ runs[i].err = NoErr
           /\ runs[i].doc.kind = "mapping"
           /\ {"name", "matchOn"} \subseteq DOMAIN runs[i].doc.kv
           /\ DOMAIN runs[i].doc.kv \subseteq LegacyRuleFields
      /\ (runs[i].c.LegacyRule.isNil /\ ~runs[i].c.Rule.isNil) =>
           /\ runs[i].err = NoErr
           /\ runs[i].doc.kind = "mapping"
           /\ DOMAIN runs[i].doc.kv = RuleFields
      /\ (runs[i].c.LegacyRule.isNil /\ runs[i].c.Rule.isNil) =>
           runs[i].err # NoErr

\* the part of C18 on a populated variant
C18_EncodePopulated ==
  \A i \in DOMAIN runs :
    (Encoded(i) /\ ~(runs[i].c.LegacyRule.isNil /\ runs[i].c.Rule.isNil)) =>
      /\ runs[i].err = NoErr
      /\ runs[i].doc.kind = "mapping"
      /\ IF ~runs[i].c.LegacyRule.isNil
           THEN "matchOn" \in DOMAIN runs[i].doc.kv
           ELSE DOMAIN runs[i].doc.kv = RuleFields

----------------------------------------------------------------------------
(* customSource.GetLabels: the pass over the static, configured and directory
   rules *)

\* the most rules in the configuration of the source
MaxRules == 2
\* the most static rules, and the most directory rules
MaxListed == 1

\* a *LegacyRule or a *Rule of a CustomRule that is executed
NilPtr == [isNil |-> TRUE, v |-> <<>>]
Ptr(v) == [isNil |-> FALSE, v |-> v]

\* CustomRule.execute; the error of the variant is wrapped into a new error
CustomRule_execute(r, fs) ==
  IF ~r.LegacyRule.isNil
    THEN With(LegacyRule_execute(r.LegacyRule.v), LAMBDA o :
         IF o.err # NoErr THEN ExecErr("failed to execute legacy rule", o.trace) ELSE o)
  ELSE IF ~r.Rule.isNil
    THEN With(execute(r.Rule.v, fs), LAMBDA o :
         IF o.err # NoErr THEN ExecErr("failed to execute rule", o.trace) ELSE o)
  ELSE ExecErr("BUG: an empty rule, this really should not happen", <<>>)

\* the rules in another order: directory, configured, static
allFeatureConfig_DirectoryFirst(lists) == lists.directory \o lists.config \o lists.static

\* append(append(getStaticFeatureConfig(), *s.config...), getDirectoryFeatureConfig()...)
allFeatureConfig(lists) == lists.static \o lists.config \o lists.directory

\* the loop of GetLabels that ends the pass at the first rule that fails
RECURSIVE GetLabelsFrom_StopOnError(_, _, _, _, _)
GetLabelsFrom_StopOnError(all, fs, i, labels, outs) ==
  IF i > Len(all) THEN [labels |-> MkMap(labels), err |-> NoErr, outs |-> outs]
  ELSE With(CustomRule_execute(all[i], fs), LAMBDA o :
       IF o.err # NoErr THEN [labels |-> MkMap(labels), err |-> NoErr, outs |-> Append(outs, o)]
       ELSE GetLabelsFrom_StopOnError(all, fs, i + 1, Merge(labels, o.labels.kv), Append(outs, o)))

\* the loop of GetLabels over allFeatureConfig, from rule i on; outs are the
\* results of the rules executed, in order
RECURSIVE GetLabelsFrom(_, _, _, _, _)
GetLabelsFrom(all, fs, i, labels, outs) ==
  IF i > Len(all) THEN [labels |-> MkMap(labels), err |-> NoErr, outs |-> outs]
  ELSE With(CustomRule_execute(all[i], fs), LAMBDA o :
       IF o.err # NoErr THEN GetLabelsFrom(all, fs, i + 1, labels, Append(outs, o))
       ELSE GetLabelsFrom(all, fs, i + 1, Merge(labels, o.labels.kv), Append(outs, o)))

\* customSource.GetLabels
GetLabels(lists, fs) == GetLabelsFrom(allFeatureConfig(lists), fs, 1, EmptyMap, <<>>)

\* the template of TemplateChoices with text and ranges, as SetConfig compiles it
CompiledTemplate ==
  [isNil |-> FALSE,
   segs |-> <<TextSeg(<<"a", "=", "1", "\n", " ", "b", " ", "\n", " ", "\n">>),
              RangeSeg("d1", "kf", "name", "kf-", "")>>]

\* the rules of the lists: modern rules with static labels, with a matcher,
\* with a template, with a matcher on a domain most snapshots lack; legacy
\* rules that match and that fail; a rule with both variants set by the
\* program; the empty rule
SourceRules ==
  { [LegacyRule |-> NilPtr,
     Rule |-> Ptr(MkRule(<<"l1">> :> <<"s1">>, <<>>, <<>>, <<>>))],
    [LegacyRule |-> NilPtr,
     Rule |-> Ptr(MkRule((<<"l1">> :> <<"s2">>) @@ (<<"l2">> :> <<"s1">>), <<>>,
                         <<Term(<<"d1", ".", "kf">>, "k1" :> Expr("Exists", <<>>))>>, <<>>))],
    [LegacyRule |-> NilPtr,
     Rule |-> Ptr([MkRule(<<"a">> :> <<"s2">>, <<>>,
                          <<Term(<<"d1", ".", "kf">>, "k1" :> Expr("Exists", <<>>))>>, <<>>)
                     EXCEPT !.labelsTemplate = CompiledTemplate])],
    [LegacyRule |-> NilPtr,
     Rule |-> Ptr(MkRule(<<"l2">> :> <<"s2">>, <<>>,
                         <<Term(<<"d2", ".", "kf">>, "k1" :> Expr("Exists", <<>>))>>, <<>>))],
    [LegacyRule |-> Ptr(MkLegacyRule(<<"l1">>, NilString,
                          <<[s \in {allRules[k] : k \in DOMAIN allRules} |->
                               IF s = "pciId" THEN "match" ELSE NilRule]>>)),
     Rule |-> NilPtr],
    [LegacyRule |-> Ptr(MkLegacyRule(<<"l2">>, StringPtr(<<"s1">>),
                          <<[s \in {allRules[k] : k \in DOMAIN allRules} |->
                               IF s = "nodename" THEN "error" ELSE NilRule]>>)),
     Rule |-> NilPtr],
    [LegacyRule |-> Ptr(MkLegacyRule(<<"l3">>, NilString, <<>>)),
     Rule |-> Ptr(MkRule(<<"l4">> :> <<"s1">>, <<>>, <<>>, <<>>))],
    [LegacyRule |-> NilPtr, Rule |-> NilPtr] }

\* the lists of at most n rules
RuleListsOf(n) == UNION { [1..k -> SourceRules] : k \in 0..n }

InitGetLabels ==
  /\ pkg = "custom"
  /\ rule = EmptyCustomRule
  /\ features \in Snapshots
  /\ runs = <<>>
  /\ mres = NotCalled
  /\ crashed = FALSE
  /\ \E static \in RuleListsOf(MaxListed), config \in RuleListsOf(MaxRules),
        directory \in RuleListsOf(MaxListed) :
       ruleLists = [static |-> static, config |-> config, directory |-> directory]
  /\ calls = NoCalls
  /\ overlapped = FALSE

\* a discovery pass: a call of customSource.GetLabels
CallGetLabels ==
  /\ Len(runs) < MaxRuns
  /\ runs' = Append(runs, GetLabels(ruleLists, features))
  /\ UNCHANGED <<calls, overlapped, ruleLists, pkg, rule, features, mres, crashed>>

NextGetLabels == CallGetLabels

SpecGetLabels == InitGetLabels /\ [][NextGetLabels]_vars

----------------------------------------------------------------------------
(* Claims on GetLabels *)

\* the pass has rule lists: the state is one of the custom source
InPass == ruleLists # NoLists

\* the number of rules of the pass
NRules == Len(ruleLists.static) + Len(ruleLists.config) + Len(ruleLists.directory)

\* the k-th rule in declared order: static, then configured, then directory
RuleAt(k) ==
  IF k <= Len(ruleLists.static) THEN ruleLists.static[k]
  ELSE IF k <= Len(ruleLists.static) + Len(ruleLists.config)
    THEN ruleLists.config[k - Len(ruleLists.static)]
  ELSE ruleLists.directory[k - Len(ruleLists.static) - Len(ruleLists.config)]

\* what the k-th rule returns on the snapshot, executed on its own
OwnOutput(k) == CustomRule_execute(RuleAt(k), features)

\* the rules that do not fail, and the keys they produce
NonFailing == { k \in 1..NRules : OwnOutput(k).err = NoErr }
Producers(key) == { k \in NonFailing : key \in DOMAIN OwnOutput(k).labels.kv }

\* C19: fault isolation per rule in GetLabels: for every rule list, a rule
\* whose execute returns an error contributes no labels and does not stop the
\* pass; every other rule is still executed, the result contains the labels
\* of all non-failing rules, and GetLabels itself returns a nil error.
C19_FaultIsolation ==
  InPass =>
    \A i \in DOMAIN runs :
      /\ runs[i].err = NoErr
      /\ ~runs[i].labels.isNil
      /\ Len(runs[i].outs) = NRules
      /\ \A k \in 1..NRules : runs[i].outs[k] = OwnOutput(k)
      /\ \A k \in 1..NRules : OwnOutput(k).err # NoErr => OwnOutput(k).labels = NilMap
      /\ DOMAIN runs[i].labels.kv =
           UNION { DOMAIN OwnOutput(k).labels.kv : k \in NonFailing }

\* a pass of three rules whose second fails: the first and the third have
\* been executed and their labels are in the result
C19_Witness ==
  /\ InPass /\ Ran
  /\ NRules = 3
  /\ OwnOutput(1).err = NoErr /\ OwnOutput(1).labels.kv # EmptyMap
  /\ OwnOutput(2).err # NoErr
  /\ OwnOutput(3).err = NoErr /\ OwnOutput(3).labels.kv # EmptyMap
  /\ DOMAIN OwnOutput(3).labels.kv \cap DOMAIN OwnOutput(1).labels.kv = {}
  /\ Last.err = NoErr
  /\ Last.labels.kv = OwnOutput(1).labels.kv @@ OwnOutput(3).labels.kv

\* C20: cross-rule override order in GetLabels: the rules are executed in
\* declared order (static rules, then configured rules, then directory rules)
\* and merged in that order, so for every label key the final label map holds
\* the value produced by the last rule in declared order that produced that
\* key without error; the output of a rule depends only on that rule and the
\* snapshot, never on the output of another rule.
C20_OverrideOrder ==
  InPass =>
    \A i \in DOMAIN runs :
      /\ \A k \in DOMAIN runs[i].outs : runs[i].outs[k] = OwnOutput(k)
      /\ \A key \in DOMAIN runs[i].labels.kv :
           /\ Producers(key) # {}
           /\ \E k \in Producers(key) :
                /\ \A j \in Producers(key) : j <= k
                /\ runs[i].labels.kv[key] = OwnOutput(k).labels.kv[key]
      /\ \A k \in NonFailing : DOMAIN OwnOutput(k).labels.kv \subseteq DOMAIN runs[i].labels.kv

\* a static rule and a directory rule produce the key l1 with different
\* values, and a configured rule between them fails: the result holds the
\* value of the directory rule
C20_Witness ==
  /\ InPass /\ Ran
  /\ Len(ruleLists.static) = 1 /\ Len(ruleLists.config) = 1 /\ Len(ruleLists.directory) = 1
  /\ OwnOutput(1).err = NoErr /\ OwnOutput(2).err # NoErr /\ OwnOutput(3).err = NoErr
  /\ <<"l1">> \in DOMAIN OwnOutput(1).labels.kv
  /\ <<"l1">> \in DOMAIN OwnOutput(3).labels.kv
  /\ OwnOutput(1).labels.kv[<<"l1">>] # OwnOutput(3).labels.kv[<<"l1">>]
  /\ Last.labels.kv[<<"l1">>] = OwnOutput(3).labels.kv[<<"l1">>]

----------------------------------------------------------------------------
(* Claims on the order and the storage of the terms of a matcher *)

\* the permutations of the terms of a matcher
Perms(m) ==
  { [i \in DOMAIN m |-> m[p[i]]] :
      p \in { q \in [DOMAIN m -> DOMAIN m] : \A i, j \in DOMAIN m : q[i] = q[j] => i = j } }

\* the verdict of a call of match: matched or not, error or not
Verdict(o) == <<~o.isNil, o.err # NoErr>>

\* the matcher has a term that resolves and matches nothing and a term that fails
MixesNoMatchAndError(m) ==
  /\ \E i \in DOMAIN m : TermNoMatch(m[i])
  /\ \E i \in DOMAIN m : TermErr(m[i]) # NoErr

\* the first term of the matcher that does not match, 0 if all match
FirstNotMatching(m) ==
  IF \A i \in DOMAIN m : TermMatches(m[i]) THEN 0
  ELSE CHOOSE i \in DOMAIN m :
         ~TermMatches(m[i]) /\ \A j \in 1..(i - 1) : TermMatches(m[j])

\* C21 as stated: the order of the terms does not affect the result of a
\* matcher: every permutation of the terms yields the same verdict and the
\* same error-or-no-error, also for matchers that mix a non-matching term
\* with a term that refers to an unknown domain or an unknown feature.
C21_TermOrderIrrelevant ==
  (Custom /\ mres.called) =>
    \A p \in Perms(rule.MatchFeatures) : Verdict(match(p, features)) = Verdict(mres.out)

\* C21, amended: the order of the terms does not affect the result of a
\* matcher that does not mix a non-matching term with a failing term; for a
\* matcher with such a mix the result is that of the first term in list order
\* that does not match: a non-match without error when that term resolves and
\* matches nothing, the error when that term fails.
C21_TermOrderIrrelevantUnlessMixed ==
  (Custom /\ mres.called) =>
    /\ ~MixesNoMatchAndError(rule.MatchFeatures) =>
         \A p \in Perms(rule.MatchFeatures) : Verdict(match(p, features)) = Verdict(mres.out)
    /\ \A p \in Perms(rule.MatchFeatures) :
         MixesNoMatchAndError(p) =>
           Verdict(match(p, features)) =
             <<FALSE, TermErr(p[FirstNotMatching(p)]) # NoErr>>

\* a matcher of a term that matches nothing followed by a term on a domain
\* the snapshot lacks: match has returned a non-match without error
C21_Witness ==
  /\ Custom /\ mres.called
  /\ Len(rule.MatchFeatures) = 2
  /\ TermNoMatch(rule.MatchFeatures[1])
  /\ RefDomainAbsent(rule.MatchFeatures[2])
  /\ Verdict(mres.out) = <<FALSE, FALSE>>

\* the first term that does not match resolves and matches nothing
FailsToMatch(m) ==
  FirstNotMatching(m) # 0 /\ TermNoMatch(m[FirstNotMatching(m)])

\* C22 as stated: when a term of a matcher fails to match, the subsets
\* matched by that term and by the terms evaluated before it remain stored
\* under result[domain][feature] and are available to the caller, while the
\* outcome is reported as a non-match without error.
C22_PartialMatchesAvailable ==
  (Custom /\ mres.called /\ FailsToMatch(rule.MatchFeatures)) =>
    /\ mres.out.err = NoErr
    /\ \A i \in 1..FirstNotMatching(rule.MatchFeatures) :
         /\ TermDomain(rule.MatchFeatures[i]) \in DOMAIN mres.out.m
         /\ TermFeature(rule.MatchFeatures[i])
              \in DOMAIN mres.out.m[TermDomain(rule.MatchFeatures[i])]

\* C22, amended: when a term of a matcher fails to match, the outcome is
\* reported as a non-match without error and the result handed to the caller
\* is nil: the subsets matched by that term and by the terms evaluated before
\* it are stored in the map match builds, which is dropped, and are not
\* available to the caller.
C22_NoMatchReturnsNil ==
  (Custom /\ mres.called /\ FailsToMatch(rule.MatchFeatures)) =>
    /\ mres.out.err = NoErr
    /\ mres.out.isNil
    /\ mres.out.m = EmptyMap

\* a first term that matches and a second that matches nothing: match has
\* returned nil, without the subset of the first term
C22_Witness ==
  /\ Custom /\ mres.called
  /\ Len(rule.MatchFeatures) = 2
  /\ TermMatches(rule.MatchFeatures[1])
  /\ TermNoMatch(rule.MatchFeatures[2])
  /\ mres.out = NoMatch(2)

----------------------------------------------------------------------------
(* Claims on template failures *)

\* the compiled template a run number i has when it reaches its alternatives:
\* package custom compiles in SetConfig, package v1alpha1 on first use
TemplateBefore(i) ==
  IF Custom \/ i > 1 THEN rule.labelsTemplate ELSE NilTemplate

\* the compiled template a run has when it reaches MatchFeatures
TemplateAtMatchFeatures ==
  IF Custom \/ rule.LabelsTemplate = <<>> THEN rule.labelsTemplate
  ELSE TemplateParse(rule.LabelsTemplate).tmpl

\* the matcher matches and the template fails on what it has matched
FailsOn(tmpl, m) ==
  /\ ~tmpl.isNil
  /\ Matches(m)
  /\ TemplateExecute(tmpl, Outcome(m).m).err # NoErr

\* run number i executes the template on a matching alternative, or on
\* MatchFeatures, and the execution fails
TemplateFailure(i) ==
  \/ \E j \in DOMAIN rule.MatchAny : FailsOn(TemplateBefore(i), rule.MatchAny[j].MatchFeatures)
  \/ /\ rule.MatchFeatures # <<>>
     /\ FailsOn(TemplateAtMatchFeatures, rule.MatchFeatures)
     /\ rule.MatchAny = <<>> \/ \E j \in DOMAIN rule.MatchAny : AltMatches(j)

\* C23: a failure to execute the label template on any matching MatchAny
\* alternative or on MatchFeatures makes execute return (nil, error): neither
\* the labels accumulated from earlier alternatives nor the static Labels are
\* returned.
C23_TemplateFailureNoPartial ==
  \A i \in DOMAIN runs :
    TemplateFailure(i) => (runs[i].labels = NilMap /\ runs[i].err # NoErr)

\* a rule with static labels and two matching alternatives: the template
\* gives labels for the first and fails on the second, execute has returned
\* (nil, error)
C23_Witness ==
  /\ Custom /\ Ran
  /\ rule.Labels # EmptyMap
  /\ Len(rule.MatchAny) = 2
  /\ AltMatches(1) /\ AltMatches(2)
  /\ ~rule.labelsTemplate.isNil
  /\ ~FailsOn(rule.labelsTemplate, rule.MatchAny[1].MatchFeatures)
  /\ TemplateLabels(rule.MatchAny[1].MatchFeatures) # EmptyMap
  /\ FailsOn(rule.labelsTemplate, rule.MatchAny[2].MatchFeatures)
  /\ Last.labels = NilMap /\ Last.err = "TemplateError"

\* the template text of the rule does not parse
BadTemplateText == rule.LabelsTemplate # <<>> /\ TemplateParse(rule.LabelsTemplate).err # NoErr

\* C24: a rule whose label template text fails to parse produces a template
\* error confined to that rule: loading a configuration that contains it
\* (SetConfig) does not abort the process or the discovery pass.
C24_BadTemplateConfined == BadTemplateText => ~crashed

----------------------------------------------------------------------------
(* Claims on the variants of a CustomRule *)

\* the number of variants of a CustomRule that are set
Populated(r) == (IF r.LegacyRule.isNil THEN 0 ELSE 1) + (IF r.Rule.isNil THEN 0 ELSE 1)

\* C25: a CustomRule is executable only when exactly one of its two variants
\* is populated: CustomRule.execute returns an error when neither LegacyRule
\* nor Rule is set, and a rule with both variants populated is likewise
\* reported as an error rather than silently executed as one of them.
C25_ExactlyOneVariant ==
  InPass =>
    \A i \in DOMAIN runs : \A k \in DOMAIN runs[i].outs :
      Populated(RuleAt(k)) # 1 => runs[i].outs[k].err # NoErr

\* the part of C25 on the empty rule
C25_EmptyRuleIsError ==
  InPass =>
    \A i \in DOMAIN runs : \A k \in DOMAIN runs[i].outs :
      Populated(RuleAt(k)) = 0 => (runs[i].outs[k].err # NoErr /\ runs[i].outs[k].labels = NilMap)

----------------------------------------------------------------------------
(* Claims on the letter case of feature references *)

\* the upper-case form of one token
UpperTok(t) ==
  CASE t = "kf" -> "KF"
    [] t = "vf" -> "VF"
    [] t = "if" -> "IF"
    [] t = "d1" -> "D1"
    [] t = "d2" -> "D2"
    [] OTHER -> t

\* the term with its feature part, or its domain part, in the other letter case
FeatureCaseVariants(t) ==
  { [t EXCEPT !.Feature = <<t.Feature[1], ".", f>>] :
      f \in {LowerTok(t.Feature[3]), UpperTok(LowerTok(t.Feature[3]))} }
DomainUpper(t) == [t EXCEPT !.Feature = <<UpperTok(t.Feature[1]), ".", t.Feature[3]>>]

\* the keys of the domain of the term under which a feature set is stored
StoredKeys(t) ==
  (DOMAIN features[TermDomain(t)].Keys) \cup (DOMAIN features[TermDomain(t)].Values)
    \cup (DOMAIN features[TermDomain(t)].Instances)

\* a feature set is stored under the name of the term in some letter case
StoredInSomeCase(t) ==
  \E k \in StoredKeys(t) : [i \in DOMAIN k |-> LowerTok(k[i])] = <<LowerTok(t.Feature[3])>>

\* C26 as stated: feature names are case-insensitive in resolution: two terms
\* whose references differ only in the letter case of the feature part
\* resolve to the same feature set and give the same match result, whatever
\* the letter case of the key under which the feature set is stored in the
\* domain; the domain part of the reference is matched case-sensitively.
C26_CaseInsensitiveWhateverStored ==
  (Custom /\ mres.called /\ Len(rule.MatchFeatures) = 1) =>
    LET t == rule.MatchFeatures[1] IN
    /\ \A v \in FeatureCaseVariants(t) : match(<<v>>, features) = mres.out
    /\ (TermDomain(t) \in DOMAIN features /\ StoredInSomeCase(t)) =>
         mres.out.err # "UnknownFeature"
    /\ match(<<DomainUpper(t)>>, features).err = "UnknownDomain"

\* C26, what the lookup does: two terms whose references differ only in the
\* letter case of the feature part resolve to the feature set stored under
\* the lower-case form of the name and give the same match result; a feature
\* set stored under a key with upper-case letters is resolved by neither; the
\* domain part of the reference is matched case-sensitively.
C26_CaseInsensitiveLowerStored ==
  (Custom /\ mres.called /\ Len(rule.MatchFeatures) = 1) =>
    LET t == rule.MatchFeatures[1] IN
    /\ \A v \in FeatureCaseVariants(t) : match(<<v>>, features) = mres.out
    /\ TermDomain(t) \in DOMAIN features =>
         (mres.out.err # "UnknownFeature" <=> <<LowerTok(t.Feature[3])>> \in StoredKeys(t))
    /\ match(<<DomainUpper(t)>>, features).err = "UnknownDomain"

\* a term written d1.KF has matched on the feature set stored under kf, as
\* the term written d1.kf does
C26_Witness ==
  /\ Custom /\ mres.called /\ Len(rule.MatchFeatures) = 1
  /\ rule.MatchFeatures[1].Feature = <<"d1", ".", "KF">>
  /\ <<"d1">> \in DOMAIN features
  /\ <<"kf">> \in DOMAIN features[<<"d1">>].Keys
  /\ ~mres.out.isNil
  /\ <<"kf">> \in DOMAIN mres.out.m[<<"d1">>]
  /\ match(<<[rule.MatchFeatures[1] EXCEPT !.Feature = <<"d1", ".", "kf">>]>>, features) = mres.out

----------------------------------------------------------------------------
(* Two concurrent calls of Rule.Execute of package v1alpha1 on one Rule.
   A call is cut at its accesses to the field r.labelsTemplate: the read in
   the loop over MatchAny, the read and the write of the lazy compilation
   and the read before expandMap.  What a call computes between two accesses
   is local to it.  The code takes no lock around the accesses, so a read
   that runs beside a write of the other call is a data race: it returns
   the value written or the value before it. *)

\* return of Execute
Return(c, res) == [c EXCEPT !.pc = "done", !.res = res]

\* the end of Execute: the static labels are merged over the expanded ones
ExecuteLabels(c, r) == Return(c, Labels(Merge(c.ret, r.Labels), <<>>))

\* the MatchFeatures step of Execute up to its call of executeLabelsTemplate
ExecuteFeaturesStep(c, r, fs) ==
  IF Len(r.MatchFeatures) > 0
    THEN With(match(r.MatchFeatures, fs), LAMBDA o :
         IF o.err # NoErr THEN Return(c, ExecErr(o.err, <<>>))
         ELSE IF o.isNil THEN Return(c, NoLabels(<<>>))
         ELSE IF r.LabelsTemplate = <<>> THEN ExecuteLabels(c, r)
         ELSE [c EXCEPT !.pc = "check", !.in = o.m, !.back = "labels"])
  ELSE ExecuteLabels(c, r)

\* the loop of Execute over r.MatchAny from alternative i on, up to the read
\* of r.labelsTemplate after a match
RECURSIVE ExecuteAnyStep(_, _, _, _)
ExecuteAnyStep(c, r, fs, i) ==
  IF i > Len(r.MatchAny)
    THEN IF Len(r.MatchAny) > 0 /\ ~c.matched THEN Return(c, NoLabels(<<>>))
         ELSE ExecuteFeaturesStep(c, r, fs)
  ELSE
    With(matchAnyElem(r.MatchAny[i], fs), LAMBDA o :
    IF o.err # NoErr THEN Return(c, ExecErr(o.err, <<>>))
    ELSE IF ~o.isNil
      THEN [c EXCEPT !.pc = "any", !.i = i, !.matched = TRUE, !.in = o.m, !.back = "any"]
    ELSE ExecuteAnyStep(c, r, fs, i + 1))

\* the return of executeLabelsTemplate to the place in Execute that called it
TemplateReturn(c, r, fs) ==
  IF c.back = "any" THEN ExecuteAnyStep(c, r, fs, c.i + 1) ELSE ExecuteLabels(c, r)

\* the values a read of r.labelsTemplate by the call c can return: the value
\* in memory, or the nil of before the writes of the other call as long as
\* c has neither seen nor written a compiled template
ReadLabelsTemplate(c, r) ==
  {r.labelsTemplate} \cup (IF c.seen THEN {} ELSE {NilTemplate})

\* the call after a read that returned v
AfterRead(c, v) == [c EXCEPT !.reads = @ + 1, !.seen = @ \/ ~v.isNil]

\* the call is between its start and its return
InFlight(c) == c.pc \notin {"idle", "done"}

InitConcurrent ==
  /\ pkg = "v1alpha1"
  /\ \E labels \in LabelChoices, template \in TemplateChoices,
        flat \in Matchers(MaxTerms), nAny \in 0..MaxAny :
       \E slot \in Slots(flat, nAny) :
         rule = MkRule(labels, template,
                       TermsOfSlot(flat, slot, 0, 1),
                       [j \in 1..nAny |-> [MatchFeatures |-> TermsOfSlot(flat, slot, j, 1)]])
  /\ features \in Snapshots
  /\ runs = <<>>
  /\ mres = NotCalled
  /\ crashed = FALSE
  /\ ruleLists = NoLists
  /\ calls = NoCalls
  /\ overlapped = FALSE

\* a goroutine calls r.Execute(features) and runs to its first access
CallExecute(g) ==
  /\ calls[g].pc = "idle"
  /\ calls' = [calls EXCEPT ![g] = ExecuteAnyStep(calls[g], rule, features, 1)]
  /\ overlapped' = (overlapped \/ \E h \in Goroutines \ {g} : InFlight(calls[h]))
  /\ UNCHANGED <<ruleLists, pkg, rule, features, runs, mres, crashed>>

\* the test r.labelsTemplate == nil in the loop over MatchAny
ReadInMatchAny(g) ==
  /\ calls[g].pc = "any"
  /\ \E v \in ReadLabelsTemplate(calls[g], rule) :
       calls' = [calls EXCEPT ![g] =
                   With(AfterRead(calls[g], v), LAMBDA c :
                   IF v.isNil THEN ExecuteFeaturesStep(c, rule, features)
                   ELSE IF rule.LabelsTemplate = <<>> THEN TemplateReturn(c, rule, features)
                   ELSE [c EXCEPT !.pc = "check"])]
  /\ UNCHANGED <<overlapped, ruleLists, pkg, rule, features, runs, mres, crashed>>

\* the test r.labelsTemplate == nil of executeLabelsTemplate and, on nil, the
\* call of newTemplateHelper
ReadForCompile(g) ==
  /\ calls[g].pc = "check"
  /\ \E v \in ReadLabelsTemplate(calls[g], rule) :
       calls' = [calls EXCEPT ![g] =
                   With(AfterRead(calls[g], v), LAMBDA c :
                   IF ~v.isNil THEN [c EXCEPT !.pc = "expand"]
                   ELSE With(newTemplateHelper(rule.LabelsTemplate), LAMBDA p :
                        IF p.err # NoErr THEN Return(c, ExecErr(p.err, <<>>))
                        ELSE [c EXCEPT !.pc = "store", !.t = p.tmpl]))]
  /\ UNCHANGED <<overlapped, ruleLists, pkg, rule, features, runs, mres, crashed>>

\* the assignment r.labelsTemplate = t
StoreLabelsTemplate(g) ==
  /\ calls[g].pc = "store"
  /\ rule' = [rule EXCEPT !.labelsTemplate = calls[g].t]
  /\ calls' = [calls EXCEPT ![g] = [@ EXCEPT !.pc = "expand", !.writes = @ + 1, !.seen = TRUE]]
  /\ UNCHANGED <<overlapped, ruleLists, pkg, features, runs, mres, crashed>>

\* r.labelsTemplate.expandMap(in), the copy of the labels into out and the
\* rest of Execute up to its next access
ReadForExpand(g) ==
  /\ calls[g].pc = "expand"
  /\ \E v \in ReadLabelsTemplate(calls[g], rule) :
       calls' = [calls EXCEPT ![g] =
                   With(AfterRead(calls[g], v), LAMBDA c :
                   With(expandMap(v, c.in), LAMBDA l :
                   IF l.err # NoErr THEN Return(c, ExecErr(l.err, <<>>))
                   ELSE TemplateReturn([c EXCEPT !.ret = Merge(c.ret, l.out)], rule, features)))]
  /\ UNCHANGED <<overlapped, ruleLists, pkg, rule, features, runs, mres, crashed>>

NextConcurrent ==
  \/ \E g \in Goroutines : CallExecute(g)
  \/ \E g \in Goroutines : ReadInMatchAny(g)
  \/ \E g \in Goroutines : ReadForCompile(g)
  \/ \E g \in Goroutines : StoreLabelsTemplate(g)
  \/ \E g \in Goroutines : ReadForExpand(g)

SpecConcurrent == InitConcurrent /\ [][NextConcurrent]_vars

----------------------------------------------------------------------------
(* Claim on the lazy compilation under concurrent calls *)

\* the number of writes of the cache field so far
CacheWrites == calls[1].writes + calls[2].writes

\* two calls that ran beside each other have touched the cache field, one of
\* them writing it: no lock orders the two accesses
UnsynchronizedAccess ==
  /\ overlapped
  /\ \E g \in Goroutines, h \in Goroutines :
       g # h /\ calls[g].writes > 0 /\ calls[h].reads + calls[h].writes > 0

\* what a call returns, without the record of the terms visited
Returned(res) == <<res.labels, res.err>>

\* what the first and the second of two calls in sequence return
SequentialResults ==
  With(Execute([rule EXCEPT !.labelsTemplate = NilTemplate], features), LAMBDA e1 :
  {Returned(e1.res), Returned(Execute(e1.rule, features).res)})

\* every call that has returned has returned what a call in a sequential
\* execution returns
ReturnsSequential ==
  \A g \in Goroutines :
    calls[g].pc = "done" => Returned(calls[g].res) \in SequentialResults

\* C27 as stated: the lazy compilation of the label template is protected by
\* a synchronization discipline: in every interleaving of two concurrent
\* Execute calls on the same Rule the cached compiled template is written at
\* most once, there is no unsynchronized read/write of the cache field, and
\* both calls return the labels a sequential execution would return.
C27_LazyCompileSynchronized ==
  /\ CacheWrites <= 1
  /\ ~UnsynchronizedAccess
  /\ ReturnsSequential

\* C27, the part on the cache written once
C27_CacheWrittenOnce == CacheWrites <= 1

\* C27, the part on the unsynchronized accesses
C27_NoUnsynchronizedAccess == ~UnsynchronizedAccess

\* C27, the part on the labels returned
C27_ReturnsSequential == ReturnsSequential

----------------------------------------------------------------------------
(* The node-name sub-rule of the custom source: NodenameRule.Match.
   A pattern is a sequence of characters; "a" and "b" stand for themselves,
   "." for any character, "^" at the head and "$" at the tail anchor the
   match, and a "(" that is never closed does not compile. *)

MaxPatterns == 3

\* regexp.Compile, for the patterns above
RegexpCompile(p) ==
  IF \E i \in DOMAIN p : p[i] = "("
    THEN [err |-> "RegexpError", head |-> FALSE, tail |-> FALSE, core |-> <<>>]
  ELSE
    LET head == Len(p) > 0 /\ p[1] = "^"
        tail == Len(p) > 0 /\ p[Len(p)] = "$"
    IN [err |-> NoErr, head |-> head, tail |-> tail,
        core |-> SubSeq(p, IF head THEN 2 ELSE 1, IF tail THEN Len(p) - 1 ELSE Len(p))]

\* the compiled pattern matches s from position k on
RegexpMatchAt(re, s, k) ==
  /\ k + Len(re.core) - 1 <= Len(s)
  /\ \A j \in 1..Len(re.core) : re.core[j] = "." \/ re.core[j] = s[k + j - 1]
  /\ re.tail => k + Len(re.core) - 1 = Len(s)

\* regexp.MatchString(pattern, s): a match anywhere in s
RegexpMatchString(p, s) ==
  With(RegexpCompile(p), LAMBDA re :
  IF re.err # NoErr THEN [match |-> FALSE, err |-> re.err]
  ELSE [match |-> \E k \in (IF re.head THEN {1} ELSE 1..(Len(s) + 1)) : RegexpMatchAt(re, s, k),
        err |-> NoErr])

\* what a sub-rule's Match returns
RuleMatch(b, e) == [matched |-> b, err |-> e]

\* the loop over the patterns where a pattern that does not compile fails the rule
RECURSIVE NodenameFrom_InvalidFails(_, _, _)
NodenameFrom_InvalidFails(n, nodeName, i) ==
  IF i > Len(n) THEN RuleMatch(FALSE, NoErr)
  ELSE With(RegexpMatchString(n[i], nodeName), LAMBDA r :
       IF r.err # NoErr THEN RuleMatch(FALSE, r.err)
       ELSE IF ~r.match THEN NodenameFrom_InvalidFails(n, nodeName, i + 1)
       ELSE RuleMatch(TRUE, NoErr))

\* the loop of NodenameRule.Match over the patterns from pattern i on
RECURSIVE NodenameFrom(_, _, _)
NodenameFrom(n, nodeName, i) ==
  IF i > Len(n) THEN RuleMatch(FALSE, NoErr)
  ELSE With(RegexpMatchString(n[i], nodeName), LAMBDA r :
       IF r.err # NoErr THEN NodenameFrom(n, nodeName, i + 1)
       ELSE IF ~r.match THEN NodenameFrom(n, nodeName, i + 1)
       ELSE RuleMatch(TRUE, NoErr))

\* NodenameRule.Match; values is the value set of the name feature of the
\* system source
NodenameMatch(n, values) ==
  IF "nodename" \notin DOMAIN values THEN RuleMatch(FALSE, "NodeNameNotAvailable")
  ELSE NodenameFrom(n, values["nodename"], 1)

\* the patterns of the rules
Patterns ==
  { <<"a", "b">>, <<"^", "b">>, <<"a", "$">>, <<"(", "a">>, <<".", ".">> }

\* the node names reported
NodeNames == { <<"a", "b">>, <<"b", "a">>, <<"b">> }

\* the value set of the name feature: with or without the node name
NameValues == { [k \in {} |-> <<>>] } \cup { [k \in {"nodename"} |-> nm] : nm \in NodeNames }

\* the lists of at most n patterns
RECURSIVE PatternLists(_)
PatternLists(n) ==
  IF n = 0 THEN {<<>>}
  ELSE PatternLists(n - 1) \cup
       { Append(l, p) : l \in { x \in PatternLists(n - 1) : Len(x) = n - 1 }, p \in Patterns }

InitNodename ==
  /\ pkg = "rules"
  /\ rule \in PatternLists(MaxPatterns)
  /\ features \in NameValues
  /\ runs = <<>>
  /\ mres = NotCalled
  /\ crashed = FALSE
  /\ ruleLists = NoLists
  /\ calls = NoCalls
  /\ overlapped = FALSE

\* a call of NodenameRule.Match
CallNodenameMatch ==
  /\ Len(runs) < MaxRuns
  /\ runs' = Append(runs, NodenameMatch(rule, features))
  /\ UNCHANGED <<calls, overlapped, ruleLists, pkg, rule, features, mres, crashed>>

NextNodename == CallNodenameMatch

SpecNodename == InitNodename /\ [][NextNodename]_vars

----------------------------------------------------------------------------
(* Claim on the node-name sub-rule *)

\* the node name is reported
NameAvailable == "nodename" \in DOMAIN features

\* the pattern is a valid regular expression
ValidPattern(p) == RegexpCompile(p).err = NoErr

\* the pattern is valid and matches the node name
PatternMatches(p) == ValidPattern(p) /\ RegexpMatchString(p, features["nodename"]).match

\* C28: NodenameRule.Match returns (true, nil) iff at least one pattern of
\* the list is a valid regular expression that matches the reported node
\* name; a pattern that is not a valid regular expression is skipped without
\* failing the rule, an empty list yields (false, nil), and an error is
\* returned only when the node name is not available.
C28_NodenameMatch ==
  \A i \in DOMAIN runs :
    /\ runs[i].err # NoErr <=> ~NameAvailable
    /\ runs[i].err # NoErr => ~runs[i].matched
    /\ NameAvailable =>
         (runs[i] = RuleMatch(TRUE, NoErr) <=> \E k \in DOMAIN rule : PatternMatches(rule[k]))
    /\ (NameAvailable /\ rule = <<>>) => runs[i] = RuleMatch(FALSE, NoErr)

\* an invalid pattern and a pattern that does not match come before the
\* pattern that matches, and the rule has matched
C28_Witness ==
  /\ Len(runs) > 0 /\ NameAvailable /\ Len(rule) = 3
  /\ ~ValidPattern(rule[1])
  /\ ValidPattern(rule[2]) /\ ~PatternMatches(rule[2])
  /\ PatternMatches(rule[3])
  /\ runs[1] = RuleMatch(TRUE, NoErr)

----------------------------------------------------------------------------
(* The kconfig sub-rule of the custom source: KconfigRule.Match and the
   decoding of its options.  The repository holds two forms of the rule: a
   list of name=value options compared with the kernel config value set, and
   a MatchExpressionSet evaluated on the legacy kconfig map. *)

MaxOptions == 2

\* a kconfig option
Kconfig(name, value) == [Name |-> name, Value |-> value]

\* a JSON document that is a string, and one that is not
JSONString(text) == [kind |-> "string", text |-> text]
JSONNumber == [kind |-> "number", text |-> <<>>]

\* the decoding of an option that leaves the value of a bare name empty
kconfigUnmarshalJSON_NoDefault(data) ==
  IF data.kind # "string" THEN [c |-> Kconfig(<<>>, <<>>), err |-> "JSONError"]
  ELSE With(SplitN2(data.text, "="), LAMBDA split :
       [c |-> Kconfig(split[1], IF Len(split) = 1 THEN <<>> ELSE split[2]), err |-> NoErr])

\* kconfig.UnmarshalJSON(data)
kconfigUnmarshalJSON(data) ==
  IF data.kind # "string" THEN [c |-> Kconfig(<<>>, <<>>), err |-> "JSONError"]
  ELSE With(SplitN2(data.text, "="), LAMBDA split :
       [c |-> Kconfig(split[1], IF Len(split) = 1 THEN <<"true">> ELSE split[2]),
        err |-> NoErr])

\* json.Unmarshal of a list of documents into a KconfigRule: the first
\* element that fails to decode fails the list
KconfigRuleUnmarshal(raw) ==
  IF \E i \in DOMAIN raw : kconfigUnmarshalJSON(raw[i]).err # NoErr
    THEN [kconfigs |-> <<>>, err |-> "JSONError"]
    ELSE [kconfigs |-> [i \in DOMAIN raw |-> kconfigUnmarshalJSON(raw[i]).c], err |-> NoErr]

\* the loop of KconfigRule.Match over the options from option i on
RECURSIVE KconfigFrom(_, _, _)
KconfigFrom(kconfigs, options, i) ==
  IF i > Len(kconfigs) THEN RuleMatch(TRUE, NoErr)
  ELSE IF kconfigs[i].Name \notin DOMAIN options \/ kconfigs[i].Value # options[kconfigs[i].Name]
    THEN RuleMatch(FALSE, NoErr)
  ELSE KconfigFrom(kconfigs, options, i + 1)

\* KconfigRule.Match of the list form; values is Values of the kernel source
KconfigMatch(kconfigs, values) ==
  IF ~values.ok THEN RuleMatch(FALSE, "KconfigNotAvailable")
  ELSE KconfigFrom(kconfigs, values.Features, 1)

\* KconfigRule.Match of the expression form; options is what
\* kernel.GetLegacyKconfig returns
KconfigMatchExpressions(es, options) ==
  IF options.isNil THEN RuleMatch(FALSE, "KconfigNotAvailable")
  ELSE With(SetMatchValues(es, options.kv), LAMBDA r : RuleMatch(r.ok, r.err))

\* the texts of the options of a rule
OptionTexts ==
  { <<"X">>, <<"X", "=", "y">>, <<"Y", "=", "a", "=", "b">>, <<"Y", "=", "true">>, <<"Z", "=">> }

\* the documents the options are decoded from
OptionDocuments == { JSONString(t) : t \in OptionTexts } \cup { JSONNumber }

\* the lists of at most n option documents
RECURSIVE OptionLists(_)
OptionLists(n) ==
  IF n = 0 THEN {<<>>}
  ELSE OptionLists(n - 1) \cup
       { Append(l, d) : l \in { x \in OptionLists(n - 1) : Len(x) = n - 1 },
                        d \in OptionDocuments }

\* the kernel config value set of the kernel source: not available, or the
\* options of the running kernel
KconfigValues ==
  { [ok |-> FALSE, Features |-> <<>>],
    [ok |-> TRUE, Features |-> <<>>],
    [ok |-> TRUE, Features |-> (<<"X">> :> <<"true">>) @@ (<<"Y">> :> <<"a", "=", "b">>)],
    [ok |-> TRUE, Features |-> (<<"X">> :> <<"y">>) @@ (<<"Y">> :> <<"true">>)],
    [ok |-> TRUE, Features |-> (<<"X">> :> <<"y">>) @@ (<<"Y">> :> <<"a">>) @@ (<<"Z">> :> <<>>)] }

\* the expression sets of the expression form
KconfigExpressions ==
  { <<>>,
    "X" :> Expr("In", <<"y">>),
    ("X" :> Expr("In", <<"y">>)) @@ ("Y" :> Expr("In", <<"true">>)),
    ("X" :> Expr("In", <<"true">>)) @@ ("Y" :> Expr("In", <<"a=b">>)),
    "Z" :> Expr("In", <<"m">>),
    "X" :> Expr("Exists", <<>>),
    ("X" :> Expr("In", <<"y", "true">>)) @@ ("Z" :> Expr("DoesNotExist", <<>>)) }

\* the legacy kconfig map: nil, or the options of the running kernel
LegacyKconfigs ==
  { NilMap,
    MkMap(EmptyMap),
    MkMap(("X" :> "true") @@ ("Y" :> "a=b")),
    MkMap(("X" :> "y") @@ ("Y" :> "true")),
    MkMap(("X" :> "y") @@ ("Z" :> "n")) }

\* a rule of the list form before it is decoded
RawKconfigRule(raw) == [raw |-> raw, decoded |-> FALSE, kconfigs |-> <<>>, err |-> NoErr]

InitKconfig ==
  /\ pkg \in {"kconfig", "kconfigexpr"}
  /\ IF pkg = "kconfig"
       THEN /\ rule \in { RawKconfigRule(raw) : raw \in OptionLists(MaxOptions) }
            /\ features \in KconfigValues
       ELSE /\ rule \in KconfigExpressions
            /\ features \in LegacyKconfigs
  /\ runs = <<>>
  /\ mres = NotCalled
  /\ crashed = FALSE
  /\ ruleLists = NoLists
  /\ calls = NoCalls
  /\ overlapped = FALSE

\* the rule is decoded from its documents
DecodeKconfigRule ==
  /\ pkg = "kconfig"
  /\ ~rule.decoded
  /\ \E d \in {KconfigRuleUnmarshal(rule.raw)} :
       rule' = [rule EXCEPT !.decoded = TRUE, !.kconfigs = d.kconfigs, !.err = d.err]
  /\ UNCHANGED <<calls, overlapped, ruleLists, pkg, features, runs, mres, crashed>>

\* a call of KconfigRule.Match of the list form, on a rule that was decoded
CallKconfigMatch ==
  /\ pkg = "kconfig"
  /\ rule.decoded /\ rule.err = NoErr
  /\ Len(runs) < MaxRuns
  /\ runs' = Append(runs, KconfigMatch(rule.kconfigs, features))
  /\ UNCHANGED <<calls, overlapped, ruleLists, pkg, rule, features, mres, crashed>>

\* a call of KconfigRule.Match of the expression form
CallKconfigMatchExpressions ==
  /\ pkg = "kconfigexpr"
  /\ Len(runs) < MaxRuns
  /\ runs' = Append(runs, KconfigMatchExpressions(rule, features))
  /\ UNCHANGED <<calls, overlapped, ruleLists, pkg, rule, features, mres, crashed>>

NextKconfig == DecodeKconfigRule \/ CallKconfigMatch \/ CallKconfigMatchExpressions

SpecKconfig == InitKconfig /\ [][NextKconfig]_vars

----------------------------------------------------------------------------
(* Claim on the kconfig sub-rule *)

\* the text is name=value, cut at its first '=', or a bare name that requires
\* the value "true"
Requires(text, name, value) ==
  \/ /\ \A j \in DOMAIN text : text[j] # "="
     /\ name = text /\ value = <<"true">>
  \/ \E i \in DOMAIN text :
       /\ text[i] = "=" /\ \A j \in 1..(i - 1) : text[j] # "="
       /\ name = SubSeq(text, 1, i - 1) /\ value = SubSeq(text, i + 1, Len(text))

\* the option written as text is present in the options with the value it requires
OptionHolds(text, options) ==
  \E name \in DOMAIN options : Requires(text, name, options[name])

\* every option of the list is present with the value it requires
ListHolds ==
  \A k \in DOMAIN rule.raw : OptionHolds(rule.raw[k].text, features.Features)

\* the result of a call of the list form
ListFormResult(o) ==
  /\ ~features.ok => (o.err # NoErr /\ ~o.matched)
  /\ features.ok =>
       /\ o.err = NoErr
       /\ o.matched <=> ListHolds
       /\ rule.raw = <<>> => o.matched

\* the expression of the option n holds of the legacy kconfig map
ExpressionHolds(n) ==
  CASE rule[n].Op = "Exists" -> n \in DOMAIN features.kv
    [] rule[n].Op = "DoesNotExist" -> n \notin DOMAIN features.kv
    [] rule[n].Op = "In" ->
         n \in DOMAIN features.kv /\ \E j \in DOMAIN rule[n].Value : rule[n].Value[j] = features.kv[n]
    [] OTHER -> FALSE

\* C29 as stated: KconfigRule.Match returns (true, nil) iff every listed
\* option is present in the kernel config value set with a value exactly
\* equal to the option's required value (an option written without '='
\* requires the value "true", and the text is split only on the first '=');
\* an empty list matches; it returns an error, not a non-match, when the
\* kernel config options are not available.
C29_KconfigExactValues ==
  \A i \in DOMAIN runs :
    /\ pkg = "kconfig" => ListFormResult(runs[i])
    /\ pkg = "kconfigexpr" =>
         /\ features.isNil => (runs[i].err # NoErr /\ ~runs[i].matched)
         /\ ~features.isNil =>
              /\ runs[i].err = NoErr
              /\ runs[i].matched <=>
                   \A n \in DOMAIN rule :
                     n \in DOMAIN features.kv /\ rule[n].Value = <<features.kv[n]>>
              /\ rule = <<>> => runs[i].matched

\* C29, amended: KconfigRule.Match of the list form returns (true, nil) iff
\* every listed option is present in the kernel config value set with a
\* value exactly equal to the option's required value (a bare name requires
\* "true", the text is split only on the first '='); KconfigRule.Match of
\* the expression form returns (true, nil) iff the expression of every
\* listed option holds of the legacy kconfig map, which is the same for an
\* In expression with one operand; an empty list matches; both return an
\* error, not a non-match, when the kernel config options are not available.
C29_KconfigMatch ==
  \A i \in DOMAIN runs :
    /\ pkg = "kconfig" => ListFormResult(runs[i])
    /\ pkg = "kconfigexpr" =>
         /\ features.isNil => (runs[i].err # NoErr /\ ~runs[i].matched)
         /\ ~features.isNil =>
              /\ runs[i].err = NoErr
              /\ runs[i].matched <=> \A n \in DOMAIN rule : ExpressionHolds(n)
              /\ rule = <<>> => runs[i].matched

\* a rule with a bare name and an option whose value holds an '=' has matched
\* the kernel config
C29_Witness ==
  /\ pkg = "kconfig" /\ Len(runs) > 0
  /\ rule.raw = <<JSONString(<<"X">>), JSONString(<<"Y", "=", "a", "=", "b">>)>>
  /\ features.ok
  /\ runs[1] = RuleMatch(TRUE, NoErr)

----------------------------------------------------------------------------
(* The kernel source: Source.Discover and parseKconfig.  A kconfig file is a
   sequence of lines and a line a sequence of pieces of text.  A read of a
   file returns (nil, err) when the file cannot be opened, (data, nil) when
   it is read to its end, and (data, err) with the non-nil data read so far
   when the read fails after the open. *)

MaxFlags == 2

\* Default kconfig flags
defaultKconfigFlags == <<"NO_HZ", "NO_HZ_IDLE", "NO_HZ_FULL", "PREEMPT">>

\* the three results of a read
ReadMissing == [isNil |-> TRUE, data |-> <<>>, err |-> "ReadError"]
ReadOk(data) == [isNil |-> FALSE, data |-> data, err |-> NoErr]
ReadBroken(data) == [isNil |-> FALSE, data |-> data, err |-> "ReadError"]

\* the line matches ^CONFIG_(?P<flag>\w+)=(?P<value>.+) with value y or m
FlagLine(line) ==
  /\ Len(line) = 4
  /\ line[1] = "CONFIG_" /\ line[3] = "="
  /\ line[4] \in {"y", "m"}

\* the loop of parseKconfig over the lines: the flags set to y or m
ParseLines(lines) == { lines[i][2] : i \in { j \in DOMAIN lines : FlagLine(lines[j]) } }

\* what parseKconfig returns, with the files it has read
KconfigResult(kconfig, err, reads) ==
  [kconfig |-> kconfig, isNil |-> err # NoErr, err |-> err, reads |-> reads]

\* parseKconfig: config is the package variable Config, fs the files
parseKconfig(config, fs) ==
  With(IF Len(config.KconfigFile) > 0 THEN fs.file ELSE ReadMissing, LAMBDA r1 :
  With(IF Len(config.KconfigFile) > 0 THEN <<"file">> ELSE <<>>, LAMBDA reads1 :
  With(IF r1.isNil THEN fs.proc ELSE r1, LAMBDA r2 :
  With(IF r1.isNil THEN Append(reads1, "proc") ELSE reads1, LAMBDA reads2 :
  IF ~r2.isNil THEN KconfigResult(ParseLines(r2.data), NoErr, reads2)
  ELSE IF fs.osrelease.err # NoErr
    THEN KconfigResult({}, fs.osrelease.err, Append(reads2, "osrelease"))
  ELSE IF fs.boot.err # NoErr
    THEN KconfigResult({}, fs.boot.err, reads2 \o <<"osrelease", "boot">>)
  ELSE KconfigResult(ParseLines(fs.boot.data), NoErr, reads2 \o <<"osrelease", "boot">>)))))

\* the loop of Discover over the enabled flags
RECURSIVE DiscoverFlags(_, _, _, _)
DiscoverFlags(enabledFlags, kconfig, i, acc) ==
  IF i > Len(enabledFlags) THEN acc
  ELSE DiscoverFlags(enabledFlags, kconfig, i + 1,
                     IF enabledFlags[i] \in kconfig
                       THEN Append(acc, <<"config-", enabledFlags[i]>>) ELSE acc)

\* Source.Discover: the error of parseKconfig is logged, the lookups run on
\* the map it returned, nil or not
Discover(config, fs) ==
  With(parseKconfig(config, fs), LAMBDA k :
  [features |-> DiscoverFlags(IF Len(config.ConfigFlags) > 0 THEN config.ConfigFlags
                              ELSE defaultKconfigFlags, k.kconfig, 1, <<>>),
   err |-> NoErr, reads |-> k.reads])

\* the kconfig files
KconfigLines ==
  [ full  |-> << <<"CONFIG_", "NO_HZ", "=", "y">>,
                 <<"CONFIG_", "PREEMPT", "=", "m">>,
                 <<"CONFIG_", "NO_HZ_FULL", "=", "n">> >>,
    unset |-> << <<"# ", "CONFIG_", "NO_HZ", " is not set">>,
                 <<"CONFIG_", "X", "=", "y">> >>,
    idle  |-> << <<"CONFIG_", "NO_HZ_IDLE", "=", "y">>,
                 <<"CONFIG_", "X", "=", "m", " ">> >> ]

\* the configurations: KconfigFile set or not, ConfigFlags empty or not
KernelConfigs ==
  { [KconfigFile |-> f, ConfigFlags |-> c] :
      f \in { <<>>, <<"/etc/kconfig">> },
      c \in { <<>>, <<"X", "NO_HZ">>, <<"PREEMPT", "PREEMPT">> } }

\* the files of the node
KernelFiles ==
  { [file |-> f, proc |-> p, osrelease |-> o, boot |-> b] :
      f \in { ReadMissing, ReadOk(KconfigLines.full), ReadOk(KconfigLines.unset), ReadBroken(<<>>) },
      p \in { ReadMissing, ReadOk(KconfigLines.idle), ReadBroken(SubSeq(KconfigLines.full, 1, 1)) },
      o \in { ReadMissing, ReadOk(<<"5.4">>) },
      b \in { ReadMissing, ReadOk(KconfigLines.unset), ReadOk(KconfigLines.full), ReadBroken(<<>>) } }

InitKernel ==
  /\ pkg = "kernel"
  /\ rule \in { c \in KernelConfigs : Len(c.ConfigFlags) <= MaxFlags }
  /\ features \in KernelFiles
  /\ runs = <<>>
  /\ mres = NotCalled
  /\ crashed = FALSE
  /\ ruleLists = NoLists
  /\ calls = NoCalls
  /\ overlapped = FALSE

\* a call of Source.Discover
CallDiscover ==
  /\ Len(runs) < MaxRuns
  /\ runs' = Append(runs, Discover(rule, features))
  /\ UNCHANGED <<calls, overlapped, ruleLists, pkg, rule, features, mres, crashed>>

NextKernel == CallDiscover

SpecKernel == InitKernel /\ [][NextKernel]_vars

----------------------------------------------------------------------------
(* Claim on the kernel source *)

\* the kconfig sources in the order they are tried
Candidates ==
  (IF Len(rule.KconfigFile) > 0 THEN <<"file">> ELSE <<>>) \o <<"proc", "boot">>

\* the source can be read: its read returns without error; the boot file is
\* named after the kernel release, which has to be read as well
CanBeRead(s) ==
  CASE s = "file" -> features.file.err = NoErr
    [] s = "proc" -> features.proc.err = NoErr
    [] s = "boot" -> features.osrelease.err = NoErr /\ features.boot.err = NoErr

\* the content of the source
ContentOf(s) ==
  CASE s = "file" -> features.file.data
    [] s = "proc" -> features.proc.data
    [] s = "boot" -> features.boot.data

\* the sources that are not kconfig sources do not count as reads of one
KconfigReads(o) == SelectSeq(o.reads, LAMBDA s : s # "osrelease")

\* the flags Discover looks up
EnabledFlags ==
  IF Len(rule.ConfigFlags) > 0 THEN rule.ConfigFlags ELSE defaultKconfigFlags

\* the content has a line CONFIG_<flag> with value y or m
FlagSet(content, flag) ==
  \E i \in DOMAIN content :
    content[i] = <<"CONFIG_", flag, "=", "y">> \/ content[i] = <<"CONFIG_", flag, "=", "m">>

\* config-<FLAG> for each enabled flag set in the content, in enabled-flag order
FeaturesOf(content) ==
  LET on == SelectSeq(EnabledFlags, LAMBDA f : FlagSet(content, f))
  IN [i \in DOMAIN on |-> <<"config-", on[i]>>]

\* what the claim says of one result of Discover
DiscoverAsClaimed(o) ==
  /\ o.err = NoErr
  /\ IF \A k \in DOMAIN Candidates : ~CanBeRead(Candidates[k])
       THEN o.features = <<>>
       ELSE LET first == CHOOSE k \in DOMAIN Candidates :
                           /\ CanBeRead(Candidates[k])
                           /\ \A j \in 1..(k - 1) : ~CanBeRead(Candidates[j])
            IN /\ KconfigReads(o) = SubSeq(Candidates, 1, first)
               /\ o.features = FeaturesOf(ContentOf(Candidates[first]))

\* a read has failed after the open and returned data with its error
BrokenRead ==
  \/ Len(rule.KconfigFile) > 0 /\ features.file = ReadBroken(features.file.data)
  \/ features.proc = ReadBroken(features.proc.data)

\* C30 as stated: the kernel source's Discover never returns an error;
\* kconfig sources are tried in the order configured KconfigFile,
\* /proc/config.gz, /boot/config-<osrelease>, the first one that can be read
\* is used and later ones are not read; if none is readable Discover returns
\* an empty feature list with a nil error; otherwise it returns exactly
\* config-<FLAG> for each enabled flag (Config.ConfigFlags if non-empty, else
\* the four defaults) whose CONFIG_<FLAG> line has value y or m, in
\* enabled-flag order.
C30_DiscoverFirstReadable ==
  \A i \in DOMAIN runs : DiscoverAsClaimed(runs[i])

\* C30, what holds of the code: the same whenever no read of the configured
\* file or of /proc/config.gz fails after its open, and Discover returns no
\* error in any case
C30_DiscoverWhenReadsClean ==
  \A i \in DOMAIN runs :
    /\ runs[i].err = NoErr
    /\ ~BrokenRead => DiscoverAsClaimed(runs[i])

\* the configured file is missing, /proc/config.gz is read and used, and the
\* boot file is not read
C30_Witness ==
  /\ pkg = "kernel" /\ Len(runs) > 0
  /\ Len(rule.KconfigFile) > 0 /\ features.file = ReadMissing
  /\ features.proc.err = NoErr
  /\ runs[1].reads = <<"file", "proc">>
  /\ runs[1].features = << <<"config-", "NO_HZ_IDLE">> >>

====
